---- MODULE Spec2Model ----
(***************************************************************************)
(* The path state machine of the flowstate grid puzzle: the Path Store     *)
(* (PathsByColor), the drag session (startDragSession / updateDragSession),*)
(* the commit worklet (commitDragWorklet) and the hand-off between the     *)
(* input (UI) thread and the application (JS) thread.                      *)
(*                                                                         *)
(* A PathsByColor object is modelled as the sequence of its entries        *)
(* [color, segments] in key insertion order (the order of `for .. in`).    *)
(* A Record<string, T> lookup table is a function whose domain is the set  *)
(* of its keys; a missing key reads as undefined.                          *)
(***************************************************************************)
EXTENDS Integers, Sequences, FiniteSets, TLC

VARIABLES
    level,              \* index of the level being played (part_002: level)
    pathsShared,        \* UI thread: pathsShared.value
    pathsMutated,       \* UI thread: pathsMutated.value (0 / 1)
    segmentIdSeed,      \* UI thread: segmentIdSeed.value
    segmentIdCounter,   \* UI thread: segmentIdCounter.value
    dragSession,        \* UI thread: dragSession.value (NoSession = null)
    dragColor,          \* UI thread: dragColor.value (NoColor = null)
    previewCells,       \* UI thread: previewCells.value, a flat number list
    gestureMode,        \* UI thread: gestureMode.value
    isDrawing,          \* UI thread: isDrawing.value (0 / 1)
    isPanning,          \* UI thread: isPanning.value (0 / 1)
    panHoldActive,      \* UI thread: panHoldActive.value (0 / 1)
    drawStart,          \* UI thread: <<drawStartX.value, drawStartY.value>>
    phase,              \* the pan recognizer's callback position; "cancelled"
                        \* is "none" after a gesture that was cancelled
    pathsRef,           \* JS thread: pathsRef.current (and the `paths` state)
    effectPending,      \* JS thread: the [paths] effect has yet to run
    jsQueue,            \* calls marshalled to the JS thread by runOnJS
    uiQueue,            \* worklets marshalled to the UI thread by runOnUI
    issued,             \* history: every segment created so far
    commitCall,         \* history: the commitDragWorklet call of the last step
    startCall,          \* history: the startDragSession call of the drag in
                        \* progress, forgotten at the next gesture or commit
    updateCall          \* history: the direct updateDragSession call of the
                        \* last step

vars == <<level, pathsShared, pathsMutated, segmentIdSeed, segmentIdCounter,
          dragSession, dragColor, previewCells, gestureMode, isDrawing, isPanning,
          panHoldActive, drawStart, phase, pathsRef, effectPending, jsQueue,
          uiQueue, issued, commitCall, startCall, updateCall>>

(***************************************************************************)
(* Bounds of the model.                                                    *)
(***************************************************************************)
MaxSegmentId == 2      \* commits that append a segment, per play session
MaxPending == 1        \* marshalled calls in flight, both directions
MaxProbePath == 3      \* longest session path handed to a direct commit call
MaxProbeId == 2        \* commits that append a segment, per run of direct calls
MaxEarly == 1          \* commits that append a segment before which a gesture
                       \* may begin early

(***************************************************************************)
(* Values.                                                                 *)
(***************************************************************************)
Undefined == "undefined"
NoColor == "null"
NoSession == [color |-> NoColor, path |-> <<>>, axis |-> "null",
              locked |-> FALSE, hasMoved |-> FALSE]
NoArea == <<>>
Red == "red"
Blue == "blue"
Colors == {Red, Blue}

Cell(x, y) == [x |-> x, y |-> y]

\* dragCommitWorklet.ts: cellKey, `${x},${y}`
cellKey(x, y) == ToString(x) \o "," \o ToString(y)

\* gestureController.ts: cellKeyWorklet, `${x},${y}`
cellKeyWorklet(x, y) == ToString(x) \o "," \o ToString(y)

KeyOf(cell) == cellKey(cell.x, cell.y)

\* obj[key] of a Record<string, string | undefined>
Lookup(table, key) == IF key \in DOMAIN table THEN table[key] ELSE Undefined

\* obj[key] of a Record<string, number | undefined>: <<n>> or NoArea
AreaLookup(table, key) == IF key \in DOMAIN table THEN <<table[key]>> ELSE NoArea

Truthy(v) == v # Undefined /\ v # ""

(***************************************************************************)
(* PathsByColor as an ordered list of entries.                             *)
(***************************************************************************)
EmptyPaths == <<>>

\* Object.keys(source) / the key order of `for (const color in source)`
ColorKeys(source) == [i \in 1..Len(source) |-> source[i].color]

HasColor(source, color) == \E i \in 1..Len(source) : source[i].color = color

IndexOfColor(source, color) ==
    CHOOSE i \in 1..Len(source) : source[i].color = color

\* source[color]; <<>> stands for undefined as well as for an empty list
\* (both fail the `!segments || !segments.length` tests of the code)
SegmentsOf(source, color) ==
    IF HasColor(source, color) THEN source[IndexOfColor(source, color)].segments
    ELSE <<>>

\* source[color] = segments: in place when the key exists, else a new last key
SetColor(source, color, segments) ==
    IF HasColor(source, color)
    THEN [source EXCEPT ![IndexOfColor(source, color)].segments = segments]
    ELSE Append(source, [color |-> color, segments |-> segments])

\* delete source[color]
DeleteColor(source, color) ==
    SelectSeq(source, LAMBDA e : e.color # color)

\* array.splice(index, 1), index counted from 1
SpliceOne(seq, index) ==
    [i \in 1..(Len(seq) - 1) |-> IF i < index THEN seq[i] ELSE seq[i + 1]]

AllSegments(source) ==
    UNION {{source[i].segments[j] : j \in 1..Len(source[i].segments)} :
           i \in 1..Len(source)}

CellsOf(segment) == {segment.cells[i] : i \in 1..Len(segment.cells)}
KeysOf(path) == {KeyOf(path[i]) : i \in 1..Len(path)}
FirstKey(segment) == KeyOf(segment.cells[1])
LastKey(segment) == KeyOf(segment.cells[Len(segment.cells)])

(***************************************************************************)
(* dragCommitWorklet.ts (src/unnamed/part_000): the Path Store operations. *)
(***************************************************************************)
\* clonePaths: a deep copy that skips absent and empty colors
clonePaths(source) == SelectSeq(source, LAMBDA e : Len(e.segments) > 0)

\* a variant of removeSegment that leaves an emptied color in the store
removeSegmentKeepsEmptyColor(source, color, segmentIndex) ==
    IF ~HasColor(source, color) THEN source
    ELSE SetColor(source, color, SpliceOne(SegmentsOf(source, color), segmentIndex))

\* a variant of removeSegment that drops the segment's last cell instead of
\* the segment
removeSegmentTrimsCell(source, color, segmentIndex) ==
    IF ~HasColor(source, color) THEN source
    ELSE SetColor(source, color,
                  [SegmentsOf(source, color) EXCEPT
                      ![segmentIndex].cells = SubSeq(@, 1, Len(@) - 1)])

\* removeSegment: splice one segment out, delete the color when it is emptied
removeSegment(source, color, segmentIndex) ==
    IF ~HasColor(source, color) THEN source
    ELSE LET segments == SpliceOne(SegmentsOf(source, color), segmentIndex)
         IN  IF Len(segments) = 0 THEN DeleteColor(source, color)
             ELSE SetColor(source, color, segments)

NoRemoval(source) == [paths |-> source, removed |-> FALSE]

\* a variant of SegmentHit that looks at the two ends of the segment only
SegmentHitEndpointsOnly(segment, keys) ==
    Len(segment.cells) > 0 /\ (FirstKey(segment) \in keys \/ LastKey(segment) \in keys)

\* a variant of SegmentHit that asks for every key of keys instead of one
SegmentHitEveryKey(segment, keys) ==
    \A key \in keys :
        \E cellIndex \in 1..Len(segment.cells) : KeyOf(segment.cells[cellIndex]) = key

\* removeSegmentsIntersecting, lines 55-63: does the segment hold a key of keys
SegmentHit(segment, keys) ==
    \E cellIndex \in 1..Len(segment.cells) : KeyOf(segment.cells[cellIndex]) \in keys

RECURSIVE IntersectingSegmentLoop(_, _, _, _)
\* removeSegmentsIntersecting, lines 53-68: index runs from the last segment down
IntersectingSegmentLoop(source, color, index, keys) ==
    IF index < 1 THEN NoRemoval(source)
    ELSE LET hit == SegmentHit(SegmentsOf(source, color)[index], keys)
             after == IF hit THEN removeSegment(source, color, index) ELSE source
             rest == IntersectingSegmentLoop(after, color, index - 1, keys)
         IN  [paths |-> rest.paths, removed |-> hit \/ rest.removed]

RECURSIVE IntersectingColorLoop(_, _, _)
\* removeSegmentsIntersecting, lines 50-69: the loop over the colors
IntersectingColorLoop(source, colors, keys) ==
    IF colors = <<>> THEN NoRemoval(source)
    ELSE LET segments == SegmentsOf(source, Head(colors))
             here == IF Len(segments) = 0 THEN NoRemoval(source)
                     ELSE IntersectingSegmentLoop(source, Head(colors), Len(segments), keys)
             rest == IntersectingColorLoop(here.paths, Tail(colors), keys)
         IN  [paths |-> rest.paths, removed |-> here.removed \/ rest.removed]

removeSegmentsIntersecting(source, keys) ==
    IntersectingColorLoop(source, ColorKeys(source), keys)

RECURSIVE EndpointsSegmentLoop(_, _, _, _)
\* removeSegmentsWithEndpoints, lines 79-90
EndpointsSegmentLoop(source, color, index, keys) ==
    IF index < 1 THEN NoRemoval(source)
    ELSE LET segment == SegmentsOf(source, color)[index]
             hit == /\ Len(segment.cells) > 0
                    /\ (FirstKey(segment) \in keys \/ LastKey(segment) \in keys)
             after == IF hit THEN removeSegment(source, color, index) ELSE source
             rest == EndpointsSegmentLoop(after, color, index - 1, keys)
         IN  [paths |-> rest.paths, removed |-> hit \/ rest.removed]

RECURSIVE EndpointsColorLoop(_, _, _)
\* removeSegmentsWithEndpoints, lines 76-91
EndpointsColorLoop(source, colors, keys) ==
    IF colors = <<>> THEN NoRemoval(source)
    ELSE LET segments == SegmentsOf(source, Head(colors))
             here == IF Len(segments) = 0 THEN NoRemoval(source)
                     ELSE EndpointsSegmentLoop(source, Head(colors), Len(segments), keys)
             rest == EndpointsColorLoop(here.paths, Tail(colors), keys)
         IN  [paths |-> rest.paths, removed |-> here.removed \/ rest.removed]

removeSegmentsWithEndpoints(source, keys) ==
    EndpointsColorLoop(source, ColorKeys(source), keys)

RECURSIVE AtEndpointSegmentLoop(_, _, _, _)
\* removeSegmentsAtEndpoint, lines 101-112
AtEndpointSegmentLoop(source, color, index, endpointKey) ==
    IF index < 1 THEN NoRemoval(source)
    ELSE LET segment == SegmentsOf(source, color)[index]
             hit == /\ Len(segment.cells) > 0
                    /\ (FirstKey(segment) = endpointKey \/ LastKey(segment) = endpointKey)
             after == IF hit THEN removeSegment(source, color, index) ELSE source
             rest == AtEndpointSegmentLoop(after, color, index - 1, endpointKey)
         IN  [paths |-> rest.paths, removed |-> hit \/ rest.removed]

RECURSIVE AtEndpointColorLoop(_, _, _)
\* removeSegmentsAtEndpoint, lines 98-113
AtEndpointColorLoop(source, colors, endpointKey) ==
    IF colors = <<>> THEN NoRemoval(source)
    ELSE LET segments == SegmentsOf(source, Head(colors))
             here == IF Len(segments) = 0 THEN NoRemoval(source)
                     ELSE AtEndpointSegmentLoop(source, Head(colors), Len(segments),
                                                endpointKey)
             rest == AtEndpointColorLoop(here.paths, Tail(colors), endpointKey)
         IN  [paths |-> rest.paths, removed |-> here.removed \/ rest.removed]

RECURSIVE AtEndpointFirstCellOnlyLoop(_, _, _)
\* a variant of removeSegmentsAtEndpoint that compares the first cell only
AtEndpointFirstCellOnlyLoop(source, colors, endpointKey) ==
    IF colors = <<>> THEN NoRemoval(source)
    ELSE LET segments == SegmentsOf(source, Head(colors))
             keep == SelectSeq(segments, LAMBDA s : FirstKey(s) # endpointKey)
             here == IF Len(keep) = Len(segments) THEN source
                     ELSE IF Len(keep) = 0 THEN DeleteColor(source, Head(colors))
                     ELSE SetColor(source, Head(colors), keep)
             rest == AtEndpointFirstCellOnlyLoop(here, Tail(colors), endpointKey)
         IN  [paths |-> rest.paths,
              removed |-> (Len(keep) # Len(segments)) \/ rest.removed]

removeSegmentsAtEndpointFirstCellOnly(source, endpointKey) ==
    AtEndpointFirstCellOnlyLoop(source, ColorKeys(source), endpointKey)

removeSegmentsAtEndpoint(source, endpointKey) ==
    AtEndpointColorLoop(source, ColorKeys(source), endpointKey)

RECURSIVE ColorInAreaLoop(_, _, _, _, _)
\* removeSegmentsWithColorInArea, lines 127-138
ColorInAreaLoop(source, color, index, areaId, areaByKey) ==
    IF index < 1 THEN NoRemoval(source)
    ELSE LET segment == SegmentsOf(source, color)[index]
             hit == /\ Len(segment.cells) > 0
                    /\ \/ AreaLookup(areaByKey, FirstKey(segment)) = <<areaId>>
                       \/ AreaLookup(areaByKey, LastKey(segment)) = <<areaId>>
             after == IF hit THEN removeSegment(source, color, index) ELSE source
             rest == ColorInAreaLoop(after, color, index - 1, areaId, areaByKey)
         IN  [paths |-> rest.paths, removed |-> hit \/ rest.removed]

\* removeSegmentsWithColorInArea, lines 117-140
removeSegmentsWithColorInArea(source, color, areaId, areaByKey) ==
    LET segments == SegmentsOf(source, color)
    IN  IF Len(segments) = 0 THEN NoRemoval(source)
        ELSE ColorInAreaLoop(source, color, Len(segments), areaId, areaByKey)

(***************************************************************************)
(* commitDragWorklet.  The function works on two objects: the store it was *)
(* given (`paths`) and the clone it makes (`next`).  CommitObjects holds   *)
(* both, and `work` names the object the local `next` refers to, so that a *)
(* write through `next` is a write to that object.                         *)
(***************************************************************************)
\* a variant of CommitObjects in which `next` is the input object itself
CommitObjectsNoClone(paths) == [input |-> paths, next |-> paths, work |-> "input"]

\* line 156: const next = clonePaths(paths)
CommitObjects(paths) == [input |-> paths, next |-> clonePaths(paths), work |-> "next"]

\* the value of `next`
NextOf(objects) == IF objects.work = "next" THEN objects.next ELSE objects.input

\* a mutation of `next` that leaves it with the value v
WriteNext(objects, v) ==
    IF objects.work = "next" THEN [objects EXCEPT !.next = v]
    ELSE [objects EXCEPT !.input = v]

\* changed = remove...(next, ...) || changed
ApplyRemoval(state, removal) ==
    [objects |-> WriteNext(state.objects, removal.paths),
     changed |-> removal.removed \/ state.changed]

\* a variant of SegmentId that leaves the counter out of the id
SegmentIdSeedOnly(idSeed, nextSegmentId) == "segment-" \o ToString(idSeed)

\* line 203: `segment-${idSeed}-${nextSegmentId}`
SegmentId(idSeed, nextSegmentId) ==
    "segment-" \o ToString(idSeed) \o "-" \o ToString(nextSegmentId)

\* return { paths, didChange: false, nextSegmentId } with the input reference
ReturnInput(objects, nextSegmentId) ==
    [paths |-> objects.input, sameRef |-> TRUE, input |-> objects.input,
     didChange |-> FALSE, nextSegmentId |-> nextSegmentId]

\* return { paths: next, didChange, nextSegmentId }
ReturnNext(objects, didChange, nextSegmentId) ==
    [paths |-> NextOf(objects), sameRef |-> objects.work = "input",
     input |-> objects.input, didChange |-> didChange,
     nextSegmentId |-> nextSegmentId]

\* lines 166-172: the dot cells among the two ends of the path
EndpointKeys(path, dotColorByKey) ==
    {k \in {KeyOf(path[1]), KeyOf(path[Len(path)])} : Truthy(Lookup(dotColorByKey, k))}

\* line 175: let changed = false
Unchanged(objects) == [objects |-> objects, changed |-> FALSE]

\* lines 178-180: the removal of the tap case
TapRemoval(state, startKey, dotColorByKey) ==
    IF Truthy(Lookup(dotColorByKey, startKey))
    THEN ApplyRemoval(state, removeSegmentsAtEndpoint(NextOf(state.objects), startKey))
    ELSE state

\* line 181: return { paths: changed ? next : paths, didChange: changed, .. }
ReturnTap(state, nextSegmentId) ==
    IF state.changed THEN ReturnNext(state.objects, TRUE, nextSegmentId)
    ELSE ReturnInput(state.objects, nextSegmentId)

\* lines 177-182: the tap case
CommitTap(objects, session, dotColorByKey, nextSegmentId) ==
    ReturnTap(TapRemoval(Unchanged(objects), KeyOf(session.path[1]), dotColorByKey),
              nextSegmentId)

\* lines 188-189 and 193: the area of an end of the path, when that end is a
\* dot of the session's color
AreaOfEnd(key, color, dotColorByKey, areaByKey) ==
    IF Lookup(dotColorByKey, key) = color THEN AreaLookup(areaByKey, key) ELSE NoArea

\* a variant of RemoveInArea that leaves the areas alone
RemoveInAreaNothing(state, color, area, other, areaByKey) == state

\* lines 190-192 and 194-196: `other` is the area already handled, or NoArea
RemoveInArea(state, color, area, other, areaByKey) ==
    IF area # NoArea /\ area # other
    THEN ApplyRemoval(state, removeSegmentsWithColorInArea(NextOf(state.objects), color,
                                                           area[1], areaByKey))
    ELSE state

\* lines 198-200
RemoveEndpoints(state, endpointKeys) ==
    IF endpointKeys # {}
    THEN ApplyRemoval(state, removeSegmentsWithEndpoints(NextOf(state.objects),
                                                         endpointKeys))
    ELSE state

\* a variant of RemoveIntersecting that skips the sweep
RemoveIntersectingNothing(state, pathKeys) == state

\* line 201
RemoveIntersecting(state, pathKeys) ==
    ApplyRemoval(state, removeSegmentsIntersecting(NextOf(state.objects), pathKeys))

\* lines 188-201: the four removals, in order
CommitRemovals(objects, session, dotColorByKey, areaByKey) ==
    RemoveIntersecting(
        RemoveEndpoints(
            RemoveInArea(
                RemoveInArea(
                    Unchanged(objects), session.color,
                    AreaOfEnd(KeyOf(session.path[1]), session.color, dotColorByKey,
                              areaByKey),
                    NoArea, areaByKey),
                session.color,
                AreaOfEnd(KeyOf(session.path[Len(session.path)]), session.color,
                          dotColorByKey, areaByKey),
                AreaOfEnd(KeyOf(session.path[1]), session.color, dotColorByKey, areaByKey),
                areaByKey),
            EndpointKeys(session.path, dotColorByKey)),
        KeysOf(session.path))

\* a variant of CommitAppend that puts the new segment first in its color
CommitAppendFirst(objects, session, idSeed, nextSegmentId) ==
    LET segment == [id |-> SegmentId(idSeed, nextSegmentId), cells |-> session.path]
        existing == SegmentsOf(NextOf(objects), session.color)
    IN  ReturnNext(WriteNext(objects, SetColor(NextOf(objects), session.color,
                                               <<segment>> \o existing)),
                   TRUE, nextSegmentId + 1)

\* a variant of CommitAppend that returns the counter it was given
CommitAppendNoIncrement(objects, session, idSeed, nextSegmentId) ==
    LET segment == [id |-> SegmentId(idSeed, nextSegmentId), cells |-> session.path]
        existing == SegmentsOf(NextOf(objects), session.color)
    IN  ReturnNext(WriteNext(objects, SetColor(NextOf(objects), session.color,
                                               Append(existing, segment))),
                   TRUE, nextSegmentId)

\* lines 203-213: build the segment, append it, return next
CommitAppend(objects, session, idSeed, nextSegmentId) ==
    LET segment == [id |-> SegmentId(idSeed, nextSegmentId), cells |-> session.path]
        existing == SegmentsOf(NextOf(objects), session.color)
    IN  ReturnNext(WriteNext(objects, SetColor(NextOf(objects), session.color,
                                               Append(existing, segment))),
                   TRUE, nextSegmentId + 1)

\* a variant of IsTap that forgets hasMoved
IsTapAnySingleCell(session) == Len(session.path) = 1

\* line 174: const isTap = path.length === 1 && !session.hasMoved
IsTap(session) == Len(session.path) = 1 /\ ~session.hasMoved

\* commitDragWorklet, lines 142-214
commitDragWorklet(paths, session, dotColorByKey, areaByKey, idSeed, nextSegmentId) ==
    IF Len(session.path) = 0
    THEN ReturnInput([input |-> paths, next |-> paths, work |-> "next"], nextSegmentId)
    ELSE LET objects == CommitObjects(paths)
         IN  IF IsTap(session)
             THEN CommitTap(objects, session, dotColorByKey, nextSegmentId)
             ELSE IF Len(session.path) = 1 THEN ReturnInput(objects, nextSegmentId)
             ELSE CommitAppend(
                      CommitRemovals(objects, session, dotColorByKey, areaByKey).objects,
                      session, idSeed, nextSegmentId)

(***************************************************************************)
(* Levels: the caller-supplied maps (part_002: openSet, dotMap, areaByKey, *)
(* openBounds), read-only to the core.                                     *)
(***************************************************************************)
fitCellSize == 2

DotTable(dots) ==
    [k \in {KeyOf(d.cell) : d \in dots} |->
        (CHOOSE d \in dots : KeyOf(d.cell) = k).color]

AreaTable(areas) ==
    [k \in {KeyOf(a.cell) : a \in areas} |->
        (CHOOSE a \in areas : KeyOf(a.cell) = k).area]

\* a 3 x 2 board, every cell open: a red pair in the top corners, one blue dot
\* in the bottom-right corner; the top-left corner and its right neighbour
\* form area 7, the top-right corner is area 8
StripLevel ==
    [cols |-> 3, rows |-> 2,
     open |-> {Cell(x, y) : x \in 0..2, y \in 0..1},
     dots |-> DotTable({[cell |-> Cell(0, 0), color |-> Red],
                        [cell |-> Cell(2, 0), color |-> Red],
                        [cell |-> Cell(2, 1), color |-> Blue]}),
     areas |-> AreaTable({[cell |-> Cell(0, 0), area |-> 7],
                          [cell |-> Cell(1, 0), area |-> 7],
                          [cell |-> Cell(2, 0), area |-> 8]})]

\* a 3 x 6 board with closed cells: the open cells are the column (0,0)..(0,3),
\* the column (2,2)..(2,5) and the cell (1,3) that joins them; a red dot at
\* (0,0), a blue dot at (2,2); the cells (0,0), (0,2) and (2,4) form area 7
TowerLevel ==
    [cols |-> 3, rows |-> 6,
     open |-> {Cell(0, y) : y \in 0..3} \cup {Cell(1, 3)} \cup {Cell(2, y) : y \in 2..5},
     dots |-> DotTable({[cell |-> Cell(0, 0), color |-> Red],
                        [cell |-> Cell(2, 2), color |-> Blue]}),
     areas |-> AreaTable({[cell |-> Cell(0, 0), area |-> 7],
                          [cell |-> Cell(0, 2), area |-> 7],
                          [cell |-> Cell(2, 4), area |-> 7]})]

\* a 2 x 3 board, every cell open and outside every area: a blue pair at (0,1)
\* and (1,0), so that a path from (0,1) over (1,1) ends on the dot (1,0) with
\* the open cell (1,2) on the far side of the bend
CornerLevel ==
    [cols |-> 2, rows |-> 3,
     open |-> {Cell(x, y) : x \in 0..1, y \in 0..2},
     dots |-> DotTable({[cell |-> Cell(0, 1), color |-> Blue],
                        [cell |-> Cell(1, 0), color |-> Blue]}),
     areas |-> AreaTable({})]

\* a 3 x 2 board, every cell open and outside every area: a red pair at (2,0)
\* and (2,1), so that a path from (2,0) along the top row and back along the
\* bottom row comes beside its own second cell without meeting a dot
LoopLevel ==
    [cols |-> 3, rows |-> 2,
     open |-> {Cell(x, y) : x \in 0..2, y \in 0..1},
     dots |-> DotTable({[cell |-> Cell(2, 0), color |-> Red],
                        [cell |-> Cell(2, 1), color |-> Red]}),
     areas |-> AreaTable({})]

Levels == <<StripLevel, TowerLevel, CornerLevel, LoopLevel>>

\* the level of the play session and of the direct commit calls
PlayLevels == {1}

Min(S) == CHOOSE m \in S : \A n \in S : m <= n
Max(S) == CHOOSE m \in S : \A n \in S : m >= n

cols == Levels[level].cols
rows == Levels[level].rows
\* a variant of openSetByKey that holds every cell of the board
openSetEveryCell ==
    {KeyOf(Cell(x, y)) : x \in 0..(Levels[level].cols - 1), y \in 0..(Levels[level].rows - 1)}
\* openSetByKey.value
openSetByKey == {KeyOf(c) : c \in Levels[level].open}
\* dotColorByKey.value
dotColorByKey == Levels[level].dots
\* areaByKey.value
areaByKey == Levels[level].areas

\* part_002, lines 251-271
openBounds ==
    LET openCells == Levels[level].open
    IN  IF openCells = {}
        THEN [minX |-> 0, minY |-> 0, maxX |-> Max({0, cols - 1}),
              maxY |-> Max({0, rows - 1})]
        ELSE [minX |-> Min({c.x : c \in openCells}), minY |-> Min({c.y : c \in openCells}),
              maxX |-> Max({c.x : c \in openCells}), maxY |-> Max({c.y : c \in openCells})]

(***************************************************************************)
(* gestureController.ts: helpers of the drag session.                      *)
(***************************************************************************)
\* clampNumber
clampNumber(value, min, max) ==
    LET lower == IF value > min THEN value ELSE min
    IN  IF lower < max THEN lower ELSE max

Abs(n) == IF n < 0 THEN -n ELSE n
\* a variant of Sign that gives a step of two
SignTwice(n) == IF n > 0 THEN 2 ELSE IF n < 0 THEN -2 ELSE 0
Sign(n) == IF n > 0 THEN 1 ELSE IF n < 0 THEN -1 ELSE 0

\* cellCenter, in half pixels: twice (cell * cellSize + cellSize / 2)
cellCenter2(cell, cellSize) ==
    [x |-> 2 * cell.x * cellSize + cellSize, y |-> 2 * cell.y * cellSize + cellSize]

RECURSIVE flattenPath(_)
\* flattenPath: [x0, y0, x1, y1, ...]
flattenPath(path) ==
    IF path = <<>> THEN <<>>
    ELSE <<Head(path).x, Head(path).y>> \o flattenPath(Tail(path))

\* the cells of a flat number list (part_002 lines 899-902 and 702-705)
unflattenCells(flat) ==
    [i \in 1..(Len(flat) \div 2) |-> Cell(flat[2 * i - 1], flat[2 * i])]

\* findSegmentAt: the first segment, in key order, that holds the cell
findSegmentAt(paths, x, y) ==
    LET hits == UNION {UNION {{<<e, s, c>> : c \in {k \in 1..Len(paths[e].segments[s].cells) :
                                            paths[e].segments[s].cells[k] = Cell(x, y)}} :
                              s \in 1..Len(paths[e].segments)} :
                       e \in 1..Len(paths)}
        first == CHOOSE h \in hits : \A g \in hits :
                    \/ h[1] < g[1]
                    \/ (h[1] = g[1] /\ h[2] < g[2])
                    \/ (h[1] = g[1] /\ h[2] = g[2] /\ h[3] <= g[3])
    IN  IF hits = {} THEN [found |-> FALSE, color |-> Undefined,
                           segment |-> [id |-> "", cells |-> <<>>], index |-> 0]
        ELSE [found |-> TRUE, color |-> paths[first[1]].color,
              segment |-> paths[first[1]].segments[first[2]], index |-> first[3]]

\* gestureController.ts clonePaths
clonePathsGC(source) == SelectSeq(source, LAMBDA e : Len(e.segments) > 0)

RECURSIVE WithEndpointSegmentLoop(_, _, _)
\* removeSegmentsWithEndpoint, lines 257-268: splice the hits out of one list
WithEndpointSegmentLoop(segments, segIndex, endpointKey) ==
    IF segIndex < 1 THEN [segments |-> segments, removed |-> FALSE]
    ELSE LET segment == segments[segIndex]
             hit == /\ Len(segment.cells) > 0
                    /\ \/ cellKeyWorklet(segment.cells[1].x, segment.cells[1].y) = endpointKey
                       \/ cellKeyWorklet(segment.cells[Len(segment.cells)].x,
                                         segment.cells[Len(segment.cells)].y) = endpointKey
             after == IF hit THEN SpliceOne(segments, segIndex) ELSE segments
             rest == WithEndpointSegmentLoop(after, segIndex - 1, endpointKey)
         IN  [segments |-> rest.segments, removed |-> hit \/ rest.removed]

RECURSIVE WithEndpointColorLoop(_, _, _)
\* removeSegmentsWithEndpoint, lines 254-272
WithEndpointColorLoop(next, colors, endpointKey) ==
    IF colors = <<>> THEN [next |-> next, removed |-> FALSE]
    ELSE LET segments == SegmentsOf(next, Head(colors))
             inner == WithEndpointSegmentLoop(segments, Len(segments), endpointKey)
             here == IF Len(segments) = 0 THEN next
                     ELSE IF Len(inner.segments) = 0 THEN DeleteColor(next, Head(colors))
                     ELSE SetColor(next, Head(colors), inner.segments)
             rest == WithEndpointColorLoop(here, Tail(colors), endpointKey)
         IN  [next |-> rest.next,
              removed |-> (Len(segments) > 0 /\ inner.removed) \/ rest.removed]

\* removeSegmentsWithEndpoint, lines 246-274
removeSegmentsWithEndpoint(paths, endpointKey, clone) ==
    LET next == IF clone THEN clonePathsGC(paths) ELSE paths
    IN  WithEndpointColorLoop(next, ColorKeys(next), endpointKey)

RECURSIVE ColorInAreaSegmentLoopGC(_, _, _, _)
\* gestureController.ts removeSegmentsWithColorInArea, lines 288-299
ColorInAreaSegmentLoopGC(segments, segIndex, areaId, areas) ==
    IF segIndex < 1 THEN [segments |-> segments, removed |-> FALSE]
    ELSE LET segment == segments[segIndex]
             hit == /\ Len(segment.cells) > 0
                    /\ \/ AreaLookup(areas, cellKeyWorklet(segment.cells[1].x,
                                                           segment.cells[1].y)) = <<areaId>>
                       \/ AreaLookup(areas, cellKeyWorklet(
                              segment.cells[Len(segment.cells)].x,
                              segment.cells[Len(segment.cells)].y)) = <<areaId>>
             after == IF hit THEN SpliceOne(segments, segIndex) ELSE segments
             rest == ColorInAreaSegmentLoopGC(after, segIndex - 1, areaId, areas)
         IN  [segments |-> rest.segments, removed |-> hit \/ rest.removed]

\* a variant of removeSegmentsWithColorInArea that stops at the first segment
\* it removes
removeSegmentsWithColorInAreaOnce(paths, color, areaId, areas, clone) ==
    LET next == IF clone THEN clonePathsGC(paths) ELSE paths
        segments == SegmentsOf(next, color)
        hits == {i \in 1..Len(segments) :
                    \/ AreaLookup(areas, FirstKey(segments[i])) = <<areaId>>
                    \/ AreaLookup(areas, LastKey(segments[i])) = <<areaId>>}
    IN  IF hits = {} THEN [next |-> next, removed |-> FALSE]
        ELSE [next |-> IF Len(segments) = 1 THEN DeleteColor(next, color)
                       ELSE SetColor(next, color, SpliceOne(segments, Max(hits))),
              removed |-> TRUE]

\* gestureController.ts removeSegmentsWithColorInArea, lines 276-304
removeSegmentsWithColorInAreaGC(paths, color, areaId, areas, clone) ==
    LET next == IF clone THEN clonePathsGC(paths) ELSE paths
        segments == SegmentsOf(next, color)
        inner == ColorInAreaSegmentLoopGC(segments, Len(segments), areaId, areas)
    IN  IF Len(segments) = 0 THEN [next |-> next, removed |-> FALSE]
        ELSE [next |-> IF Len(inner.segments) = 0 THEN DeleteColor(next, color)
                       ELSE SetColor(next, color, inner.segments),
              removed |-> inner.removed]

\* serializePaths (and part_002 buildPayload, the same loop)
serializePaths(paths) ==
    LET entry(e) == [color |-> e.color,
                     segments |-> [i \in 1..Len(e.segments) |->
                                      [id |-> e.segments[i].id,
                                       cells |-> flattenPath(e.segments[i].cells)]]]
        all == [i \in 1..Len(paths) |-> entry(paths[i])]
    IN  SelectSeq(all, LAMBDA e : Len(e.segments) > 0)

RECURSIVE deserializeEntries(_, _)
\* part_002 deserializePaths, lines 700-711: next[entry.color] = segments
deserializeEntries(payload, next) ==
    IF payload = <<>> THEN next
    ELSE LET e == Head(payload)
             segments == [i \in 1..Len(e.segments) |->
                             [id |-> e.segments[i].id,
                              cells |-> unflattenCells(e.segments[i].cells)]]
         IN  deserializeEntries(Tail(payload),
                                IF Len(segments) > 0 THEN SetColor(next, e.color, segments)
                                ELSE next)

\* a variant of deserializePaths that takes the entries last to first
deserializePathsBackwards(payload) ==
    deserializeEntries([i \in 1..Len(payload) |-> payload[Len(payload) + 1 - i]],
                       EmptyPaths)

\* part_002 deserializePaths
deserializePaths(payload) == deserializeEntries(payload, EmptyPaths)

Reverse(seq) == [i \in 1..Len(seq) |-> seq[Len(seq) + 1 - i]]

\* a variant of buildPickupPath that keeps the longer side whatever the dots
buildPickupPathLongerSide(segment, index, color, dotColors) ==
    IF index >= Len(segment.cells) - index + 1 THEN SubSeq(segment.cells, 1, index)
    ELSE Reverse(SubSeq(segment.cells, index, Len(segment.cells)))

\* a variant of buildPickupPath that hands the kept side over tip first
buildPickupPathTipFirst(segment, index, color, dotColors) ==
    LET leftDot == Lookup(dotColors, KeyOf(segment.cells[1])) = color
        rightDot == Lookup(dotColors, KeyOf(segment.cells[Len(segment.cells)])) = color
        useLeft == IF leftDot /\ ~rightDot THEN TRUE
                   ELSE IF rightDot /\ ~leftDot THEN FALSE
                   ELSE index >= Len(segment.cells) - index + 1
    IN  IF useLeft THEN Reverse(SubSeq(segment.cells, 1, index))
        ELSE SubSeq(segment.cells, index, Len(segment.cells))

\* buildPickupPath; index counts from 1
buildPickupPath(segment, index, color, dotColors) ==
    LET cells == segment.cells
        leftLen == index
        rightLen == Len(cells) - index + 1
        leftEnd == cells[1]
        rightEnd == cells[Len(cells)]
        leftDot == Lookup(dotColors, cellKeyWorklet(leftEnd.x, leftEnd.y)) = color
        rightDot == Lookup(dotColors, cellKeyWorklet(rightEnd.x, rightEnd.y)) = color
        useLeft == IF leftDot /\ ~rightDot THEN TRUE
                   ELSE IF rightDot /\ ~leftDot THEN FALSE
                   ELSE leftLen >= rightLen
    IN  IF useLeft THEN SubSeq(cells, 1, index)
        ELSE Reverse(SubSeq(cells, index, Len(cells)))

\* resolveAxis; deltaX and deltaY only enter through |deltaX| >= |deltaY|
resolveAxis(axis, deltaX, deltaY, last, pointerCell, pointerInOpen) ==
    LET absX == Abs(deltaX)
        absY == Abs(deltaY)
        candidateCell == IF pointerInOpen THEN pointerCell ELSE last
    IN  IF axis = "null"
        THEN IF candidateCell.x = last.x /\ candidateCell.y = last.y THEN "null"
             ELSE IF candidateCell.x # last.x /\ candidateCell.y # last.y
                  THEN (IF absX >= absY THEN "x" ELSE "y")
             ELSE IF candidateCell.x # last.x THEN "x" ELSE "y"
        ELSE IF axis = "x" /\ candidateCell.y # last.y
             THEN (IF candidateCell.x = last.x \/ absY >= absX THEN "y" ELSE axis)
        ELSE IF axis = "y" /\ candidateCell.x # last.x
             THEN (IF candidateCell.y = last.y \/ absX >= absY THEN "x" ELSE axis)
        ELSE axis

StepGuard == 256

\* a variant of Shortcut that keeps the cell after the earlier occurrence
ShortcutKeepsNext(st, existingIndex) ==
    [st EXCEPT !.path = SubSeq(st.path, 1, existingIndex + 1), !.locked = FALSE,
               !.pathChanged = TRUE]

\* a variant of Shortcut that pushes the candidate although it is in the path
ShortcutRepeats(st, existingIndex) ==
    [st EXCEPT !.path = Append(st.path, st.path[existingIndex]), !.locked = FALSE,
               !.pathChanged = TRUE]

\* updateDragSession, lines 559-564: path.splice(existingIndex + 1), with
\* existingIndex counted from 1
Shortcut(st, existingIndex) ==
    [st EXCEPT !.path = SubSeq(st.path, 1, existingIndex), !.locked = FALSE,
               !.pathChanged = TRUE]

RECURSIVE StepLoop(_, _, _, _, _)
\* updateDragSession, lines 533-577: the stepping loop; st holds the loop's
\* path, locked, hasMoved and pathChanged
StepLoop(st, axis, targetCoord, color, guard) ==
    IF guard >= StepGuard THEN st
    ELSE LET path == st.path
             current == path[Len(path)]
             currentCoord == IF axis = "x" THEN current.x ELSE current.y
             diff == targetCoord - currentCoord
             stepDir == Sign(diff)
             next == IF axis = "x" THEN Cell(current.x + stepDir, current.y)
                     ELSE Cell(current.x, current.y + stepDir)
             isBacktrack == Len(path) >= 2 /\ path[Len(path) - 1] = next
             nextKey == cellKeyWorklet(next.x, next.y)
             found == {i \in 1..Len(path) : path[i] = next}
             dotColor == Lookup(dotColorByKey, nextKey)
             pushed == [st EXCEPT !.path = Append(path, next), !.hasMoved = TRUE,
                                  !.pathChanged = TRUE]
         IN  IF diff = 0 THEN st
             ELSE IF isBacktrack
                  THEN StepLoop([st EXCEPT !.path = SubSeq(path, 1, Len(path) - 1),
                                           !.locked = FALSE, !.pathChanged = TRUE],
                                axis, targetCoord, color, guard + 1)
             ELSE IF st.locked THEN st
             ELSE IF nextKey \notin openSetByKey THEN st
             ELSE IF found # {}
                  THEN Shortcut(st, Min(found))
             ELSE IF Truthy(dotColor) /\ dotColor # color THEN st
             ELSE IF Truthy(dotColor) /\ dotColor = color
                  THEN [pushed EXCEPT !.locked = TRUE]
             ELSE StepLoop(pushed, axis, targetCoord, color, guard + 1)

\* lines 504 and 180: const size = fitCellSize > 0 ? fitCellSize : 1
size == IF fitCellSize > 0 THEN fitCellSize ELSE 1

\* updateDragSession, lines 508-513: the pointer clamped to the open bounds
ClampedPointer(localX, localY, bounds) ==
    [x |-> clampNumber(localX, bounds.minX * size, (bounds.maxX + 1) * size),
     y |-> clampNumber(localY, bounds.minY * size, (bounds.maxY + 1) * size)]

\* updateDragSession, lines 514-517
PointerCell(clamped, bounds) ==
    Cell(clampNumber(clamped.x \div size, bounds.minX, bounds.maxX),
         clampNumber(clamped.y \div size, bounds.minY, bounds.maxY))

\* a variant of AxisOf that goes by the larger pixel delta alone
AxisOfDominant(session, last, clamped, pointerCell) ==
    IF Abs(2 * clamped.x - cellCenter2(last, size).x)
           >= Abs(2 * clamped.y - cellCenter2(last, size).y)
    THEN "x" ELSE "y"

\* updateDragSession, lines 506-507 and 518-525: the axis of this update; the
\* deltas are in half pixels
AxisOf(session, last, clamped, pointerCell) ==
    resolveAxis(session.axis,
                2 * clamped.x - cellCenter2(last, size).x,
                2 * clamped.y - cellCenter2(last, size).y,
                last, pointerCell,
                cellKeyWorklet(pointerCell.x, pointerCell.y) \in openSetByKey)

\* a variant of Stepped that goes to the pointer's cell in one step
SteppedJump(session, axis, pointerCell) ==
    [path |-> IF pointerCell = session.path[Len(session.path)] THEN session.path
              ELSE Append(session.path, pointerCell),
     locked |-> session.locked, hasMoved |-> TRUE,
     pathChanged |-> pointerCell # session.path[Len(session.path)]]

\* a variant of Stepped that does not step a locked session at all
SteppedLockFirst(session, axis, pointerCell) ==
    IF axis # "null" /\ ~session.locked
    THEN StepLoop([path |-> session.path, locked |-> session.locked,
                   hasMoved |-> session.hasMoved, pathChanged |-> FALSE],
                  axis, IF axis = "x" THEN pointerCell.x ELSE pointerCell.y,
                  session.color, 0)
    ELSE [path |-> session.path, locked |-> session.locked,
          hasMoved |-> session.hasMoved, pathChanged |-> FALSE]

\* a variant of Stepped that enters the loop as if the session were not locked
SteppedUnlocked(session, axis, pointerCell) ==
    IF axis # "null"
    THEN StepLoop([path |-> session.path, locked |-> FALSE,
                   hasMoved |-> session.hasMoved, pathChanged |-> FALSE],
                  axis, IF axis = "x" THEN pointerCell.x ELSE pointerCell.y,
                  session.color, 0)
    ELSE [path |-> session.path, locked |-> session.locked,
          hasMoved |-> session.hasMoved, pathChanged |-> FALSE]

\* updateDragSession, lines 526-578
Stepped(session, axis, pointerCell) ==
    IF axis # "null"
    THEN StepLoop([path |-> session.path, locked |-> session.locked,
                   hasMoved |-> session.hasMoved, pathChanged |-> FALSE],
                  axis, IF axis = "x" THEN pointerCell.x ELSE pointerCell.y,
                  session.color, 0)
    ELSE [path |-> session.path, locked |-> session.locked,
          hasMoved |-> session.hasMoved, pathChanged |-> FALSE]

\* a variant of Settled that keeps the axis and the lock of the loop
SettledKeepsAxis(session, axis, st) ==
    [session |-> [color |-> session.color, path |-> st.path, axis |-> axis,
                  locked |-> st.locked, hasMoved |-> st.hasMoved],
     pathChanged |-> st.pathChanged]

\* a variant of Settled that never reports a change of the path
SettledUnchanged(session, axis, st) ==
    [session |-> [color |-> session.color, path |-> st.path,
                  axis |-> IF Len(st.path) <= 1 THEN "null" ELSE axis,
                  locked |-> st.locked /\ Len(st.path) > 1,
                  hasMoved |-> st.hasMoved],
     pathChanged |-> FALSE]

\* updateDragSession, lines 580-601, without the rendering tip
Settled(session, axis, st) ==
    LET lastCell == st.path[Len(st.path)]
        lastDot == Lookup(dotColorByKey, cellKeyWorklet(lastCell.x, lastCell.y))
    IN  [session |-> [color |-> session.color, path |-> st.path,
                      axis |-> IF Len(st.path) <= 1 THEN "null" ELSE axis,
                      locked |-> IF \/ ~Truthy(lastDot)
                                    \/ lastDot # session.color
                                    \/ Len(st.path) = 1
                                 THEN FALSE ELSE st.locked,
                      hasMoved |-> st.hasMoved],
         pathChanged |-> st.pathChanged]

\* updateDragSession, lines 525-601, once the axis is resolved
UpdateAlong(session, axis, pointerCell) ==
    Settled(session, axis, Stepped(session, axis, pointerCell))

\* updateDragSession, lines 504-601, for a session with a path
UpdateToward(session, clamped, pointerCell) ==
    UpdateAlong(session,
                AxisOf(session, session.path[Len(session.path)], clamped, pointerCell),
                pointerCell)

\* updateDragSession, lines 494-602; localX and localY are whole pixels
updateDragSession(session, localX, localY) ==
    IF Len(session.path) = 0 THEN [session |-> session, pathChanged |-> FALSE]
    ELSE UpdateToward(session, ClampedPointer(localX, localY, openBounds),
                      PointerCell(ClampedPointer(localX, localY, openBounds), openBounds))

\* startDragSession, lines 453-456 and 466-469: take a removal that removed
TakeRemoval(evicted, removal) ==
    IF removal.removed THEN [paths |-> removal.next, removed |-> TRUE] ELSE evicted

\* a variant of EvictEndpoint that removes nothing
EvictEndpointNothing(evicted, key) == evicted

\* a variant of EvictEndpoint that removes the segments ending on any dot
EvictEndpointAnyDot(evicted, key) ==
    LET removal == removeSegmentsWithEndpoints(evicted.paths, DOMAIN dotColorByKey)
    IN  IF removal.removed THEN [paths |-> removal.paths, removed |-> TRUE] ELSE evicted

\* startDragSession, lines 452-456
EvictEndpoint(evicted, key) ==
    TakeRemoval(evicted, removeSegmentsWithEndpoint(evicted.paths, key, TRUE))

\* startDragSession, lines 457-470
EvictArea(evicted, areaId, dotColor) ==
    IF areaId = NoArea THEN evicted
    ELSE TakeRemoval(evicted,
                     removeSegmentsWithColorInAreaGC(evicted.paths, dotColor, areaId[1],
                                                     areaByKey, ~evicted.removed))

\* startDragSession, lines 449-477: the evictions made when the start cell is
\* a dot; the result is the store to continue with and whether it changed
StartEvictions(paths, key, dotColor) ==
    EvictArea(EvictEndpoint([paths |-> paths, removed |-> FALSE], key),
              AreaLookup(areaByKey, key), dotColor)

\* startDragSession, lines 479-491
SessionFrom(startCell, color, evicted, segmentHit) ==
    IF ~Truthy(color)
    THEN [ok |-> FALSE, session |-> NoSession, paths |-> evicted.paths,
          removed |-> evicted.removed]
    ELSE [ok |-> TRUE,
          session |-> [color |-> color,
                       path |-> IF segmentHit.found /\ segmentHit.color = color
                                THEN buildPickupPath(segmentHit.segment, segmentHit.index,
                                                     color, dotColorByKey)
                                ELSE <<startCell>>,
                       axis |-> "null", locked |-> FALSE, hasMoved |-> FALSE],
          paths |-> evicted.paths, removed |-> evicted.removed]

\* a variant of StartColor that does not look at the segments
StartColorDotOnly(dotColor, segmentHit) == dotColor

\* startDragSession, lines 478-479: color = dotColor ?? segmentHit?.color
StartColor(dotColor, segmentHit) ==
    IF dotColor # Undefined THEN dotColor
    ELSE IF segmentHit.found THEN segmentHit.color ELSE Undefined

\* startDragSession, lines 478-491
StartFrom(startCell, dotColor, evicted) ==
    SessionFrom(startCell,
                StartColor(dotColor, findSegmentAt(evicted.paths, startCell.x, startCell.y)),
                evicted, findSegmentAt(evicted.paths, startCell.x, startCell.y))

\* startDragSession, lines 446-491, for an open start cell
StartAt(startCell, key, dotColor, shared) ==
    StartFrom(startCell, dotColor,
              IF Truthy(dotColor) THEN StartEvictions(shared, key, dotColor)
              ELSE [paths |-> shared, removed |-> FALSE])

\* startDragSession, lines 441-492.  ok = FALSE stands for the null result;
\* paths and removed report the write to pathsShared made before returning
startDragSession(startCell, shared) ==
    IF cellKeyWorklet(startCell.x, startCell.y) \notin openSetByKey
    THEN [ok |-> FALSE, session |-> NoSession, paths |-> shared, removed |-> FALSE]
    ELSE StartAt(startCell, cellKeyWorklet(startCell.x, startCell.y),
                 Lookup(dotColorByKey, cellKeyWorklet(startCell.x, startCell.y)), shared)

(***************************************************************************)
(* The two threads.  Gesture callbacks and runOnUI worklets run on the UI  *)
(* thread, one at a time; runOnJS calls run on the JS thread in the order  *)
(* they were made.  Pan and zoom are left at their identity values (so a  *)
(* screen position is a local position), no pinch is in progress, no modal *)
(* is open, and the rendering-only shared values (preview opacity, color   *)
(* and line tip) are not part of the state.                                *)
(***************************************************************************)
MODE_IDLE == 0
MODE_DRAW == 1
MODE_PAN == 2
IOS_MOVE_SLOP == 2
moveSlop == IOS_MOVE_SLOP

Msg(kind, x, y, color, payload, didChange) ==
    [kind |-> kind, x |-> x, y |-> y, color |-> color, payload |-> payload,
     didChange |-> didChange]

NoCall == [called |-> FALSE, paths |-> EmptyPaths, session |-> NoSession,
           idSeed |-> 0, nextSegmentId |-> 0,
           result |-> [paths |-> EmptyPaths, sameRef |-> TRUE, input |-> EmptyPaths,
                       didChange |-> FALSE, nextSegmentId |-> 0]]

Call(paths, session, idSeed, nextSegmentId) ==
    [called |-> TRUE, paths |-> paths, session |-> session, idSeed |-> idSeed,
     nextSegmentId |-> nextSegmentId,
     result |-> commitDragWorklet(paths, session, dotColorByKey, areaByKey, idSeed,
                                  nextSegmentId)]

NoStart == [called |-> FALSE, startCell |-> Cell(0, 0), paths |-> EmptyPaths,
            mutated |-> 0,
            result |-> [ok |-> FALSE, session |-> NoSession, paths |-> EmptyPaths,
                        removed |-> FALSE]]

\* a startDragSession call: the cell, pathsShared.value and pathsMutated.value
\* as the call found them, and what it returned and wrote
Started(startCell, paths, mutated, result) ==
    [called |-> TRUE, startCell |-> startCell, paths |-> paths, mutated |-> mutated,
     result |-> result]

NoUpdate == [called |-> FALSE, session |-> NoSession, localX |-> 0, localY |-> 0,
             result |-> [session |-> NoSession, pathChanged |-> FALSE]]

\* the segments a call's result holds and its input did not
NewSegments(call) == AllSegments(call.result.paths) \ AllSegments(call.paths)

\* history: every segment created so far
Issue(call) == issued \cup NewSegments(call)

InFlight == Len(jsQueue) + Len(uiQueue)

\* toCell of a screen position, with pan 0 and scale 1
toCell(px, py) == Cell(px \div size, py \div size)

\* the pixel at the centre of a cell column or row
CentreOf(c) == c * fitCellSize + fitCellSize \div 2

\* screen positions of pointer events: any whole pixel of the board, edge included
PointerXs == 0..(cols * fitCellSize)
PointerYs == 0..(rows * fitCellSize)
\* a gesture begins at the centre of a cell of the board, or at the centre of
\* the first cell to the right of the board
BeginPositions ==
    {<<CentreOf(x), CentreOf(y)>> : x \in 0..(cols - 1), y \in 0..(rows - 1)}
        \cup {<<CentreOf(cols), CentreOf(0)>>}

\* clearPreview (gestureController.ts, lines 604-613)
clearPreview ==
    /\ previewCells' = <<>>
    /\ dragSession' = NoSession
    /\ dragColor' = NoColor

\* runOnJS(onDragEnd)(), lines 824 and 833.  The call has no arguments; the
\* message (and the stopDrawing worklet made from it) carries as history the
\* color and the path of the session the gesture held when it was released
DragEnd == Msg("onDragEnd", 0, 0, dragSession.color, flattenPath(dragSession.path), FALSE)

\* panDraw.onBegin, lines 751-760
BeginGesture(px, py) ==
    /\ phase \in {"none", "cancelled"}
    /\ segmentIdCounter < MaxSegmentId
    /\ phase' = "began"
    /\ drawStart' = <<px, py>>
    /\ gestureMode' = MODE_IDLE
    /\ isDrawing' = 0
    /\ isPanning' = 0
    /\ panHoldActive' = 0
    /\ dragSession' = NoSession
    /\ commitCall' = NoCall
    /\ startCall' = NoStart
    /\ UNCHANGED <<level, updateCall, pathsShared, pathsMutated, segmentIdSeed,
                   segmentIdCounter, dragColor, previewCells, pathsRef, effectPending,
                   jsQueue, uiQueue, issued>>

\* a gesture that begins when no marshalled call is in flight
PanBegin(px, py) ==
    /\ InFlight < MaxPending
    /\ BeginGesture(px, py)

\* a gesture that begins while a call of the release before it is still in
\* flight
PanBeginEarly(px, py) ==
    /\ InFlight = MaxPending
    /\ segmentIdCounter < MaxEarly
    /\ BeginGesture(px, py)

\* panDraw.onUpdate, lines 786-797: the session is started, and lines 799-811
\* run the first updateDragSession in the same callback
BeginDraw(started, result) ==
    /\ phase' = "active"
    /\ gestureMode' = MODE_DRAW
    /\ isDrawing' = 1
    /\ dragColor' = started.session.color
    /\ dragSession' = result.session
    /\ previewCells' = flattenPath(result.session.path)
    /\ pathsShared' = started.paths
    /\ pathsMutated' = IF started.removed THEN 1 ELSE pathsMutated
    /\ jsQueue' = IF started.removed
                  THEN Append(jsQueue, Msg("onPathsMutated", 0, 0, NoColor,
                                           serializePaths(started.paths), TRUE))
                  ELSE jsQueue

\* panDraw.onUpdate, lines 767-797 and 799-811: the gesture leaves idle for draw
PanUpdateStartDraw(ex, ey) ==
    /\ phase \in {"began", "active"}
    /\ gestureMode = MODE_IDLE
    /\ panHoldActive = 0
    /\ (ex - drawStart[1]) * (ex - drawStart[1]) + (ey - drawStart[2]) * (ey - drawStart[2])
           >= moveSlop * moveSlop
    /\ \E startCell \in {toCell(drawStart[1], drawStart[2])} :
           /\ ~(startCell.x < 0 \/ startCell.y < 0 \/ startCell.x >= cols
                    \/ startCell.y >= rows)
           /\ \E started \in {startDragSession(startCell, pathsShared)} :
                  /\ started.ok
                  /\ startCall' = Started(startCell, pathsShared, pathsMutated, started)
                  /\ \E result \in {updateDragSession(started.session, ex, ey)} :
                         BeginDraw(started, result)
    /\ commitCall' = NoCall
    /\ UNCHANGED <<level, updateCall,
                   segmentIdSeed, segmentIdCounter, isPanning, panHoldActive,
                   drawStart, pathsRef, effectPending, uiQueue, issued>>

\* panDraw.onUpdate, lines 778-785: startDragSession returned null, after the
\* write to pathsShared it may have made
RefuseDraw(started) ==
    /\ pathsShared' = started.paths
    /\ pathsMutated' = IF started.removed THEN 1 ELSE pathsMutated
    /\ jsQueue' = IF started.removed
                  THEN Append(jsQueue, Msg("onPathsMutated", 0, 0, NoColor,
                                           serializePaths(started.paths), TRUE))
                  ELSE jsQueue

\* panDraw.onUpdate, lines 773-785: the start cell is off the board, or
\* startDragSession returns null
PanUpdateRefused(ex, ey) ==
    /\ phase \in {"began", "active"}
    /\ gestureMode = MODE_IDLE
    /\ panHoldActive = 0
    /\ (ex - drawStart[1]) * (ex - drawStart[1]) + (ey - drawStart[2]) * (ey - drawStart[2])
           >= moveSlop * moveSlop
    /\ \E startCell \in {toCell(drawStart[1], drawStart[2])} :
           IF startCell.x < 0 \/ startCell.y < 0 \/ startCell.x >= cols
                  \/ startCell.y >= rows
           THEN UNCHANGED <<pathsShared, pathsMutated, jsQueue, startCall>>
           ELSE \E started \in {startDragSession(startCell, pathsShared)} :
                    /\ ~started.ok
                    /\ startCall' = Started(startCell, pathsShared, pathsMutated,
                                            started)
                    /\ RefuseDraw(started)
    /\ phase' = "active"
    /\ isDrawing' = 0
    /\ clearPreview
    /\ commitCall' = NoCall
    /\ UNCHANGED <<level, updateCall,
                   segmentIdSeed, segmentIdCounter, gestureMode, isPanning,
                   panHoldActive, drawStart, pathsRef, effectPending, uiQueue, issued>>

\* a variant of PanUpdateStartPan that does not test the mode or the hold:
\* a gesture that draws can turn into a pan
PanUpdateStartPanAnyMode(ex, ey) ==
    /\ phase \in {"began", "active"}
    /\ gestureMode \in {MODE_IDLE, MODE_DRAW}
    /\ phase' = "active"
    /\ gestureMode' = MODE_PAN
    /\ isPanning' = 1
    /\ commitCall' = NoCall
    /\ UNCHANGED <<level, startCall, updateCall,
                   pathsShared, pathsMutated, segmentIdSeed, segmentIdCounter,
                   dragSession, dragColor, previewCells, isDrawing, panHoldActive,
                   drawStart, pathsRef, effectPending, jsQueue, uiQueue, issued>>

\* panDraw.onUpdate, lines 768-772: a held press turns the gesture into a pan
PanUpdateStartPan(ex, ey) ==
    /\ phase \in {"began", "active"}
    /\ gestureMode = MODE_IDLE
    /\ panHoldActive # 0
    /\ phase' = "active"
    /\ gestureMode' = MODE_PAN
    /\ isPanning' = 1
    /\ commitCall' = NoCall
    /\ UNCHANGED <<level, startCall, updateCall,
                   pathsShared, pathsMutated, segmentIdSeed, segmentIdCounter,
                   dragSession, dragColor, previewCells, isDrawing, panHoldActive,
                   drawStart, pathsRef, effectPending, jsQueue, uiQueue, issued>>

\* panDraw.onUpdate, lines 799-811: an update of the running drag session
PanUpdateDraw(ex, ey) ==
    /\ phase = "active"
    /\ gestureMode = MODE_DRAW
    /\ isDrawing # 0
    /\ dragSession # NoSession
    /\ \E result \in {updateDragSession(dragSession, ex, ey)} :
           /\ dragSession' = result.session
           /\ previewCells' = IF result.pathChanged THEN flattenPath(result.session.path)
                              ELSE previewCells
    /\ commitCall' = NoCall
    /\ UNCHANGED <<level, startCall, updateCall,
                   pathsShared, pathsMutated, segmentIdSeed, segmentIdCounter,
                   dragColor, gestureMode, isDrawing, isPanning, panHoldActive,
                   drawStart, phase, pathsRef, effectPending, jsQueue, uiQueue,
                   issued>>

\* panDraw.onEnd, lines 821-830: the pointer is lifted from an active gesture
PanEnd ==
    /\ phase = "active"
    /\ phase' = "ended"
    /\ IF gestureMode = MODE_DRAW /\ isDrawing # 0
       THEN /\ isDrawing' = 0
            /\ jsQueue' = Append(jsQueue, DragEnd)
       ELSE UNCHANGED <<isDrawing, jsQueue>>
    /\ commitCall' = NoCall
    /\ UNCHANGED <<level, startCall, updateCall,
                   pathsShared, pathsMutated, segmentIdSeed, segmentIdCounter,
                   dragSession, dragColor, previewCells, gestureMode, isPanning,
                   panHoldActive, drawStart, pathsRef, effectPending, uiQueue, issued>>

\* the recognizer cancels an active gesture (the system takes the touch away):
\* onFinalize is due; whether the library first calls onEnd, lines 821-830, as
\* for a gesture that ends, is left open
PanCancel(endCalled) ==
    /\ phase = "active"
    /\ phase' = "cancelling"
    /\ IF endCalled /\ gestureMode = MODE_DRAW /\ isDrawing # 0
       THEN /\ isDrawing' = 0
            /\ jsQueue' = Append(jsQueue, DragEnd)
       ELSE UNCHANGED <<isDrawing, jsQueue>>
    /\ commitCall' = NoCall
    /\ UNCHANGED <<level, startCall, updateCall,
                   pathsShared, pathsMutated, segmentIdSeed, segmentIdCounter,
                   dragSession, dragColor, previewCells, gestureMode, isPanning,
                   panHoldActive, drawStart, pathsRef, effectPending, uiQueue, issued>>

\* panDraw.onFinalize, lines 831-838
PanFinalize ==
    /\ phase \in {"began", "ended", "cancelling"}
    /\ phase' = IF phase = "cancelling" THEN "cancelled" ELSE "none"
    /\ IF isDrawing # 0
       THEN /\ isDrawing' = 0
            /\ jsQueue' = Append(jsQueue, DragEnd)
       ELSE UNCHANGED <<isDrawing, jsQueue>>
    /\ isPanning' = 0
    /\ gestureMode' = MODE_IDLE
    /\ commitCall' = NoCall
    /\ UNCHANGED <<level, startCall, updateCall,
                   pathsShared, pathsMutated, segmentIdSeed, segmentIdCounter,
                   dragSession, dragColor, previewCells, panHoldActive, drawStart,
                   pathsRef, effectPending, uiQueue, issued>>

\* panHold.onStart, lines 882-884: the press was held without moving
PanHoldStart ==
    /\ phase = "began"
    /\ panHoldActive = 0
    /\ panHoldActive' = 1
    /\ commitCall' = NoCall
    /\ UNCHANGED <<level, startCall, updateCall,
                   pathsShared, pathsMutated, segmentIdSeed, segmentIdCounter,
                   dragSession, dragColor, previewCells, gestureMode, isDrawing,
                   isPanning, drawStart, phase, pathsRef, effectPending, jsQueue,
                   uiQueue, issued>>

\* panHold.onFinalize, lines 885-887
PanHoldFinalize ==
    /\ panHoldActive # 0
    /\ panHoldActive' = 0
    /\ commitCall' = NoCall
    /\ UNCHANGED <<level, startCall, updateCall,
                   pathsShared, pathsMutated, segmentIdSeed, segmentIdCounter,
                   dragSession, dragColor, previewCells, gestureMode, isDrawing,
                   isPanning, drawStart, phase, pathsRef, effectPending, jsQueue,
                   uiQueue, issued>>

\* tap.onEnd, lines 901-908: a successful tap on a cell of the board (the tap
\* recognizer waits for the pan recognizer to fail)
TapEnd(cellX, cellY) ==
    /\ phase \in {"none", "cancelled"}
    /\ InFlight < MaxPending
    /\ ~(cellX < 0 \/ cellY < 0 \/ cellX >= cols \/ cellY >= rows)
    /\ jsQueue' = Append(jsQueue, Msg("onTap", cellX, cellY, NoColor, <<>>, FALSE))
    /\ commitCall' = NoCall
    /\ UNCHANGED <<level, startCall, updateCall,
                   pathsShared, pathsMutated, segmentIdSeed, segmentIdCounter,
                   dragSession, dragColor, previewCells, gestureMode, isDrawing,
                   isPanning, panHoldActive, drawStart, phase, pathsRef, effectPending,
                   uiQueue, issued>>

\* panDraw.onUpdate, lines 762-797: still idle, the pointer has not left the
\* move slop
PanUpdateIdle(ex, ey) ==
    LET dx == ex - drawStart[1]
        dy == ey - drawStart[2]
    IN  /\ phase = "began"
        /\ gestureMode = MODE_IDLE
        /\ panHoldActive = 0
        /\ dx * dx + dy * dy < moveSlop * moveSlop
        /\ phase' = "active"
        /\ commitCall' = NoCall
        /\ UNCHANGED <<level, startCall, updateCall,
                       pathsShared, pathsMutated, segmentIdSeed, segmentIdCounter,
                       dragSession, dragColor, previewCells, gestureMode, isDrawing,
                       isPanning, panHoldActive, drawStart, pathsRef, effectPending,
                       jsQueue, uiQueue, issued>>

\* part_002 clearPreviewLayer, lines 492-500 (it does not touch dragSession)
clearPreviewLayer ==
    /\ previewCells' = <<>>
    /\ dragColor' = NoColor
    /\ isDrawing' = 0
    /\ pathsMutated' = 0

\* stopDrawing, lines 861-866 and 929: the JS half of onDragEnd schedules the
\* commit worklet on the UI thread
JsStopDrawing ==
    /\ jsQueue # <<>>
    /\ Head(jsQueue).kind = "onDragEnd"
    /\ jsQueue' = Tail(jsQueue)
    /\ uiQueue' = Append(uiQueue, [Head(jsQueue) EXCEPT !.kind = "stopDrawing"])
    /\ commitCall' = NoCall
    /\ UNCHANGED <<level, startCall, updateCall,
                   pathsShared, pathsMutated, segmentIdSeed, segmentIdCounter,
                   dragSession, dragColor, previewCells, gestureMode, isDrawing,
                   isPanning, panHoldActive, drawStart, phase, pathsRef, effectPending,
                   issued>>

\* handleTap, lines 943-952 and 993: only a tap on a dot reaches the UI thread
JsHandleTap ==
    LET m == Head(jsQueue)
        color == Lookup(dotColorByKey, cellKey(m.x, m.y))
    IN  /\ jsQueue # <<>>
        /\ m.kind = "onTap"
        /\ jsQueue' = Tail(jsQueue)
        /\ uiQueue' = IF Truthy(color)
                      THEN Append(uiQueue, Msg("tap", m.x, m.y, color, <<>>, FALSE))
                      ELSE uiQueue
        /\ commitCall' = NoCall
        /\ UNCHANGED <<level, startCall, updateCall,
                       pathsShared, pathsMutated, segmentIdSeed, segmentIdCounter,
                       dragSession, dragColor, previewCells, gestureMode, isDrawing,
                       isPanning, panHoldActive, drawStart, phase, pathsRef,
                       effectPending, issued>>

\* the onPathsMutated callback of the controller; the screen passes none, so
\* the call changes nothing
JsPathsMutated ==
    /\ jsQueue # <<>>
    /\ Head(jsQueue).kind = "onPathsMutated"
    /\ jsQueue' = Tail(jsQueue)
    /\ commitCall' = NoCall
    /\ UNCHANGED <<level, startCall, updateCall,
                   pathsShared, pathsMutated, segmentIdSeed, segmentIdCounter,
                   dragSession, dragColor, previewCells, gestureMode, isDrawing,
                   isPanning, panHoldActive, drawStart, phase, pathsRef, effectPending,
                   uiQueue, issued>>

\* finalizeCommitFromPayload / finalizeCommit / applyPaths, lines 666-725
JsFinalizeCommit ==
    LET m == Head(jsQueue)
        nextPaths == deserializePaths(m.payload)
    IN  /\ jsQueue # <<>>
        /\ m.kind = "finalize"
        /\ jsQueue' = Tail(jsQueue)
        /\ IF m.didChange
           THEN /\ pathsRef' = nextPaths
                /\ pathsShared' = nextPaths
                /\ effectPending' = TRUE
           ELSE UNCHANGED <<pathsRef, pathsShared, effectPending>>
        /\ clearPreviewLayer
        /\ commitCall' = NoCall
        /\ UNCHANGED <<level, startCall, updateCall,
                       segmentIdSeed, segmentIdCounter, dragSession, gestureMode,
                       isPanning, panHoldActive, drawStart, phase, uiQueue, issued>>

\* handleToggleMode, lines 512-515, and the timer's timeout, lines 529-538:
\* the application clears the preview layer, whatever the gesture is doing
\* (the interaction mode is not read by the controller; the modal the timeout
\* opens is left out)
JsClearPreview ==
    /\ clearPreviewLayer
    /\ commitCall' = NoCall
    /\ UNCHANGED <<level, startCall, updateCall, pathsShared, segmentIdSeed,
                   segmentIdCounter, dragSession, gestureMode, isPanning, panHoldActive,
                   drawStart, phase, pathsRef, effectPending, jsQueue, uiQueue, issued>>

\* the effect on [paths], lines 435-438, run after the render that follows
\* setPaths
JsPathsEffect ==
    /\ effectPending
    /\ effectPending' = FALSE
    /\ pathsShared' = pathsRef
    /\ commitCall' = NoCall
    /\ UNCHANGED <<level, startCall, updateCall,
                   pathsMutated, segmentIdSeed, segmentIdCounter, dragSession,
                   dragColor, previewCells, gestureMode, isDrawing, isPanning,
                   panHoldActive, drawStart, phase, pathsRef, jsQueue, uiQueue, issued>>

\* the finalizeCommitFromPayload call a worklet ends with when commit reports
\* no change, lines 892-896 and 923-927
FinalizeUnchanged(mutated) ==
    IF mutated THEN Msg("finalize", 0, 0, NoColor, serializePaths(pathsShared), TRUE)
    ELSE Msg("finalize", 0, 0, NoColor, <<>>, FALSE)

\* the worklet of stopDrawing, lines 888-898: nothing to commit
UiStopDrawingNoPath ==
    /\ uiQueue # <<>>
    /\ Head(uiQueue).kind = "stopDrawing"
    /\ dragColor = NoColor \/ Len(previewCells) < 4
    /\ uiQueue' = Tail(uiQueue)
    /\ jsQueue' = Append(jsQueue, FinalizeUnchanged(pathsMutated = 1))
    /\ commitCall' = NoCall
    /\ startCall' = NoStart
    /\ UNCHANGED <<level, updateCall,
                   pathsShared, pathsMutated, segmentIdSeed, segmentIdCounter,
                   dragSession, dragColor, previewCells, gestureMode, isDrawing,
                   isPanning, panHoldActive, drawStart, phase, pathsRef, effectPending,
                   issued>>

\* part_002, lines 904-927 and 960-992: what a worklet does with the result of
\* its commitDragWorklet call; unchangedMsg is the finalize call it makes when
\* the commit reports no change
TakeCommit(call, unchangedMsg) ==
    /\ IF call.result.didChange
       THEN /\ segmentIdCounter' = call.result.nextSegmentId
            /\ pathsShared' = call.result.paths
            /\ jsQueue' = Append(jsQueue, Msg("finalize", 0, 0, NoColor,
                                              serializePaths(call.result.paths), TRUE))
       ELSE /\ UNCHANGED <<segmentIdCounter, pathsShared>>
            /\ jsQueue' = Append(jsQueue, unchangedMsg)
    /\ commitCall' = call
    /\ startCall' = NoStart
    /\ issued' = Issue(call)

\* the worklet of stopDrawing, lines 899-928: commit the preview path
UiStopDrawingCommit ==
    /\ uiQueue # <<>>
    /\ Head(uiQueue).kind = "stopDrawing"
    /\ ~(dragColor = NoColor \/ Len(previewCells) < 4)
    /\ uiQueue' = Tail(uiQueue)
    /\ \E path \in {unflattenCells(previewCells)} :
           \E call \in {Call(pathsShared,
                             [color |-> dragColor, path |-> path, axis |-> "null",
                              locked |-> FALSE, hasMoved |-> Len(path) > 1],
                             segmentIdSeed, segmentIdCounter)} :
               TakeCommit(call, FinalizeUnchanged(pathsMutated = 1))
    /\ UNCHANGED <<level, updateCall, pathsMutated, segmentIdSeed, dragSession, dragColor,
                   previewCells, gestureMode, isDrawing, isPanning, panHoldActive,
                   drawStart, phase, pathsRef, effectPending>>

\* the worklet of handleTap, lines 952-993
UiTapWorklet ==
    /\ uiQueue # <<>>
    /\ Head(uiQueue).kind = "tap"
    /\ uiQueue' = Tail(uiQueue)
    /\ \E m \in {Head(uiQueue)} :
           \E call \in {Call(pathsShared,
                             [color |-> m.color, path |-> <<Cell(m.x, m.y)>>,
                              axis |-> "null", locked |-> FALSE, hasMoved |-> FALSE],
                             segmentIdSeed, segmentIdCounter)} :
               TakeCommit(call, Msg("finalize", 0, 0, NoColor, <<>>, FALSE))
    /\ UNCHANGED <<level, updateCall, pathsMutated, segmentIdSeed, dragSession, dragColor,
                   previewCells, gestureMode, isDrawing, isPanning, panHoldActive,
                   drawStart, phase, pathsRef, effectPending>>

(***************************************************************************)
(* The application: one play session of one level.                         *)
(***************************************************************************)
\* a stand-in for the Date.now() of part_002 line 364
PlaySeeds == {17}

Init ==
    /\ level \in PlayLevels
    /\ pathsShared = EmptyPaths
    /\ pathsMutated = 0
    /\ segmentIdSeed \in PlaySeeds
    /\ segmentIdCounter = 0
    /\ dragSession = NoSession
    /\ dragColor = NoColor
    /\ previewCells = <<>>
    /\ gestureMode = MODE_IDLE
    /\ isDrawing = 0
    /\ isPanning = 0
    /\ panHoldActive = 0
    /\ drawStart = <<0, 0>>
    /\ phase = "none"
    /\ pathsRef = EmptyPaths
    /\ effectPending = FALSE
    /\ jsQueue = <<>>
    /\ uiQueue = <<>>
    /\ issued = {}
    /\ commitCall = NoCall
    /\ startCall = NoStart
    /\ updateCall = NoUpdate

Next ==
    \/ \E p \in BeginPositions : PanBegin(p[1], p[2])
    \/ \E ex \in PointerXs, ey \in PointerYs : PanUpdateIdle(ex, ey)
    \/ \E ex \in PointerXs, ey \in PointerYs : PanUpdateStartDraw(ex, ey)
    \/ \E ex \in PointerXs, ey \in PointerYs : PanUpdateRefused(ex, ey)
    \/ \E ex \in PointerXs, ey \in PointerYs : PanUpdateStartPan(ex, ey)
    \/ \E ex \in PointerXs, ey \in PointerYs : PanUpdateDraw(ex, ey)
    \/ PanEnd
    \/ \E endCalled \in BOOLEAN : PanCancel(endCalled)
    \/ PanFinalize
    \/ PanHoldStart
    \/ PanHoldFinalize
    \/ \E cellX \in 0..(cols - 1), cellY \in 0..(rows - 1) : TapEnd(cellX, cellY)
    \/ JsStopDrawing
    \/ JsHandleTap
    \/ JsPathsMutated
    \/ JsFinalizeCommit
    \/ JsPathsEffect
    \/ UiStopDrawingNoPath
    \/ UiStopDrawingCommit
    \/ UiTapWorklet

Spec == Init /\ [][Next]_vars

(***************************************************************************)
(* The play session when the player touches the board again before the     *)
(* release of the gesture before has been committed and finalized: drags   *)
(* only, the pointer at the centre of a cell.                              *)
(***************************************************************************)
CentrePointers ==
    {<<CentreOf(x), CentreOf(y)>> : x \in 0..(cols - 1), y \in 0..(rows - 1)}

\* the centres of the cells that hold a dot
DotPointers ==
    {p \in CentrePointers : Truthy(Lookup(dotColorByKey, KeyOf(toCell(p[1], p[2]))))}

NextRace ==
    \/ \E p \in DotPointers : PanBegin(p[1], p[2])
    \/ \E p \in DotPointers : PanBeginEarly(p[1], p[2])
    \/ \E p \in CentrePointers : PanUpdateStartDraw(p[1], p[2])
    \/ \E p \in CentrePointers : PanUpdateDraw(p[1], p[2])
    \/ PanEnd
    \/ PanFinalize
    \/ JsStopDrawing
    \/ JsPathsMutated
    \/ JsFinalizeCommit
    \/ JsPathsEffect
    \/ UiStopDrawingNoPath
    \/ UiStopDrawingCommit

SpecRace == Init /\ [][NextRace]_vars

(***************************************************************************)
(* The same play session when the application may also clear the preview   *)
(* layer at any moment, by the mode toggle or the timer's timeout.         *)
(***************************************************************************)
NextClear ==
    \/ NextRace
    \/ JsClearPreview

SpecClear == Init /\ [][NextClear]_vars

(***************************************************************************)
(* The Path Store under direct calls: commitDragWorklet applied to any     *)
(* session over the level's open cells and startDragSession applied to any *)
(* open cell, each on the store the previous call left, with the idSeed    *)
(* fixed and the counter threaded from call to call.                       *)
(***************************************************************************)
Adjacent(a, b) == Abs(a.x - b.x) + Abs(a.y - b.y) = 1

\* contiguous paths without a repeated cell, the empty path included
ProbePaths ==
    {p \in UNION {[1..n -> Levels[level].open] : n \in 0..MaxProbePath} :
        /\ \A i \in 1..(Len(p) - 1) : Adjacent(p[i], p[i + 1])
        /\ \A i, j \in 1..Len(p) : i # j => p[i] # p[j]}

\* the paths a drag of the color can hold when it is released: the first cell
\* is a dot of the color (startDragSession, buildPickupPath), no later cell is
\* a dot of another color and no cell between the ends is a dot at all
\* (updateDragSession, lines 566-576)
DrawnPath(p, color) ==
    /\ Len(p) >= 2
    /\ Lookup(dotColorByKey, KeyOf(p[1])) = color
    /\ \A i \in 2..Len(p) : Lookup(dotColorByKey, KeyOf(p[i])) \in {Undefined, color}
    /\ \A i \in 2..(Len(p) - 1) : Lookup(dotColorByKey, KeyOf(p[i])) = Undefined

\* the sessions handed to a direct call: any path of at most one cell with any
\* color and hasMoved, and the drawn paths as stopDrawing passes them
\* (part_002, lines 899-909: hasMoved = path.length > 1)
ProbeSessions ==
    {[color |-> c, path |-> p, axis |-> "null", locked |-> FALSE, hasMoved |-> h] :
        c \in Colors, p \in {q \in ProbePaths : Len(q) <= 1}, h \in BOOLEAN}
    \cup
    UNION {{[color |-> c, path |-> p, axis |-> "null", locked |-> FALSE,
             hasMoved |-> TRUE] : p \in {q \in ProbePaths : DrawnPath(q, c)}} :
           c \in Colors}

\* one call of commitDragWorklet; the caller keeps the returned store and counter
CommitProbe(session) ==
    /\ segmentIdCounter < MaxProbeId \/ Len(session.path) < 2
    /\ \E call \in {Call(pathsShared, session, segmentIdSeed, segmentIdCounter)} :
           /\ pathsShared' = call.result.paths
           /\ segmentIdCounter' = call.result.nextSegmentId
           /\ commitCall' = call
           /\ startCall' = NoStart
           /\ issued' = Issue(call)
    /\ UNCHANGED <<level, updateCall, pathsMutated, segmentIdSeed, dragSession, dragColor,
                   previewCells, gestureMode, isDrawing, isPanning, panHoldActive,
                   drawStart, phase, pathsRef, effectPending, jsQueue, uiQueue>>

\* one call of startDragSession that publishes a store
StartProbe(startCell) ==
    /\ \E started \in {startDragSession(startCell, pathsShared)} :
           /\ started.removed
           /\ pathsShared' = started.paths
           /\ pathsMutated' = 1
           /\ startCall' = Started(startCell, pathsShared, pathsMutated, started)
    /\ commitCall' = NoCall
    /\ UNCHANGED <<level, updateCall,
                   segmentIdSeed, segmentIdCounter, dragSession, dragColor,
                   previewCells, gestureMode, isDrawing, isPanning, panHoldActive,
                   drawStart, phase, pathsRef, effectPending, jsQueue, uiQueue, issued>>

\* the session stopDrawing hands to commitDragWorklet for a drawn path
DrawnSession(color, path) ==
    [color |-> color, path |-> path, axis |-> "null", locked |-> FALSE,
     hasMoved |-> Len(path) > 1]

\* the releases made before a run of direct calls begins: none, or three that
\* fill the board with two red segments and a blue one
ProbeHistories ==
    {<<>>,
     <<DrawnSession(Red, <<Cell(0, 0), Cell(0, 1)>>),
       DrawnSession(Red, <<Cell(2, 0), Cell(1, 0)>>),
       DrawnSession(Blue, <<Cell(2, 1), Cell(1, 1)>>)>>}

\* the caller's state after one more commit: the store, the counter and the
\* segments created so far
Replayed(state, result) ==
    [paths |-> result.paths, nextSegmentId |-> result.nextSegmentId,
     issued |-> state.issued \cup (AllSegments(result.paths) \ AllSegments(state.paths))]

RECURSIVE Replay(_, _, _)
Replay(history, idSeed, state) ==
    IF history = <<>> THEN state
    ELSE Replay(Tail(history), idSeed,
                Replayed(state, commitDragWorklet(state.paths, Head(history),
                                                  dotColorByKey, areaByKey, idSeed,
                                                  state.nextSegmentId)))

InitCommit ==
    /\ level \in PlayLevels
    /\ segmentIdSeed \in PlaySeeds
    /\ \E history \in ProbeHistories :
           \E start \in {Replay(history, segmentIdSeed,
                                [paths |-> EmptyPaths, nextSegmentId |-> 0,
                                 issued |-> {}])} :
               /\ pathsShared = start.paths
               /\ pathsRef = start.paths
               /\ segmentIdCounter = start.nextSegmentId
               /\ issued = start.issued
    /\ pathsMutated = 0
    /\ dragSession = NoSession
    /\ dragColor = NoColor
    /\ previewCells = <<>>
    /\ gestureMode = MODE_IDLE
    /\ isDrawing = 0
    /\ isPanning = 0
    /\ panHoldActive = 0
    /\ drawStart = <<0, 0>>
    /\ phase = "none"
    /\ effectPending = FALSE
    /\ jsQueue = <<>>
    /\ uiQueue = <<>>
    /\ commitCall = NoCall
    /\ startCall = NoStart
    /\ updateCall = NoUpdate

NextCommit ==
    \/ \E session \in ProbeSessions : CommitProbe(session)
    \/ \E startCell \in Levels[level].open : StartProbe(startCell)

SpecCommit == InitCommit /\ [][NextCommit]_vars

(***************************************************************************)
(* The drag session under direct calls: startDragSession applied to any    *)
(* cell of the board (and to one cell beside it), updateDragSession applied *)
(* to the session with any pointer position, on every level, from a store  *)
(* built by commitDragWorklet.                                             *)
(***************************************************************************)
\* the releases that built the store, per level
DragHistories ==
    <<{<<>>,
       <<DrawnSession(Red, <<Cell(0, 0), Cell(0, 1)>>),
         DrawnSession(Red, <<Cell(2, 0), Cell(1, 0)>>),
         DrawnSession(Blue, <<Cell(2, 1), Cell(1, 1)>>)>>,
       <<DrawnSession(Red, <<Cell(0, 0), Cell(0, 1), Cell(1, 1), Cell(1, 0),
                             Cell(2, 0)>>)>>},
      {<<DrawnSession(Red, <<Cell(0, 0), Cell(0, 1), Cell(0, 2), Cell(0, 3)>>)>>,
       <<DrawnSession(Red, <<Cell(0, 2), Cell(0, 3)>>),
         DrawnSession(Red, <<Cell(2, 4), Cell(2, 3)>>)>>,
       <<DrawnSession(Red, <<Cell(0, 1), Cell(0, 2), Cell(0, 3), Cell(1, 3),
                             Cell(2, 3)>>)>>,
       <<DrawnSession(Red, <<Cell(0, 3), Cell(0, 2), Cell(0, 1), Cell(0, 0)>>)>>},
      {<<>>},
      {<<>>}>>

\* the cells handed to startDragSession: the board and the cell to its right
StartCells == {Cell(x, y) : x \in 0..cols, y \in 0..(rows - 1)}

\* the pointer positions handed to updateDragSession: every whole pixel of
\* the play level, the centre of every cell (open or closed) of the other
DragPointers ==
    IF level \in PlayLevels THEN PointerXs \X PointerYs
    ELSE {<<CentreOf(x), CentreOf(y)>> : x \in 0..(cols - 1), y \in 0..(rows - 1)}

\* the one call of startDragSession of a run; the caller keeps the session
\* (lines 778-797)
StartCall(startCell) ==
    /\ ~startCall.called
    /\ \E started \in {startDragSession(startCell, pathsShared)} :
           /\ dragSession' = started.session
           /\ pathsShared' = started.paths
           /\ pathsMutated' = IF started.removed THEN 1 ELSE pathsMutated
           /\ startCall' = Started(startCell, pathsShared, pathsMutated, started)
    /\ updateCall' = NoUpdate
    /\ UNCHANGED <<level, segmentIdSeed, segmentIdCounter, dragColor, previewCells,
                   gestureMode, isDrawing, isPanning, panHoldActive, drawStart, phase,
                   pathsRef, effectPending, jsQueue, uiQueue, issued, commitCall>>

\* one call of updateDragSession on the session of the last start
UpdateCall(localX, localY) ==
    /\ dragSession # NoSession
    /\ \E result \in {updateDragSession(dragSession, localX, localY)} :
           /\ dragSession' = result.session
           /\ updateCall' = [called |-> TRUE, session |-> dragSession,
                             localX |-> localX, localY |-> localY, result |-> result]
    /\ UNCHANGED <<level, pathsShared, pathsMutated, segmentIdSeed, segmentIdCounter,
                   dragColor, previewCells, gestureMode, isDrawing, isPanning,
                   panHoldActive, drawStart, phase, pathsRef, effectPending, jsQueue,
                   uiQueue, issued, commitCall, startCall>>

InitDrag ==
    /\ level \in 1..Len(Levels)
    /\ segmentIdSeed \in PlaySeeds
    /\ \E history \in DragHistories[level] :
           \E start \in {Replay(history, segmentIdSeed,
                                [paths |-> EmptyPaths, nextSegmentId |-> 0,
                                 issued |-> {}])} :
               /\ pathsShared = start.paths
               /\ pathsRef = start.paths
               /\ segmentIdCounter = start.nextSegmentId
               /\ issued = start.issued
    /\ pathsMutated = 0
    /\ dragSession = NoSession
    /\ dragColor = NoColor
    /\ previewCells = <<>>
    /\ gestureMode = MODE_IDLE
    /\ isDrawing = 0
    /\ isPanning = 0
    /\ panHoldActive = 0
    /\ drawStart = <<0, 0>>
    /\ phase = "none"
    /\ effectPending = FALSE
    /\ jsQueue = <<>>
    /\ uiQueue = <<>>
    /\ commitCall = NoCall
    /\ startCall = NoStart
    /\ updateCall = NoUpdate

NextDrag ==
    \/ \E startCell \in StartCells : StartCall(startCell)
    \/ \E pointer \in DragPointers : UpdateCall(pointer[1], pointer[2])

SpecDrag == InitDrag /\ [][NextDrag]_vars

(***************************************************************************)
(* Properties of the Path Store.                                           *)
(***************************************************************************)
\* the places <<entry, segment>> of a store
Positions(store) ==
    UNION {{<<e, i>> : i \in 1..Len(store[e].segments)} : e \in 1..Len(store)}

SegmentAt(store, p) == store[p[1]].segments[p[2]]

PathCells(call) == {call.session.path[i] : i \in 1..Len(call.session.path)}

IsPathCase(call) == call.called /\ Len(call.session.path) >= 2

\* the place of the segment a path-case commit appends: the last one of the
\* session's color (<<0, 0>> when the color is absent)
AppendedPosition(call) ==
    IF HasColor(call.result.paths, call.session.color)
    THEN <<IndexOfColor(call.result.paths, call.session.color),
           Len(SegmentsOf(call.result.paths, call.session.color))>>
    ELSE <<0, 0>>

\* the segments of the result other than the appended one
SurvivorPositions(call) == Positions(call.result.paths) \ {AppendedPosition(call)}

IssuedIds == {g.id : g \in issued}

RECURSIVE IsSubSeq(_, _)
\* a is b with some elements left out
IsSubSeq(a, b) ==
    IF a = <<>> THEN TRUE
    ELSE IF b = <<>> THEN FALSE
    ELSE IF Head(a) = Head(b) THEN IsSubSeq(Tail(a), Tail(b))
    ELSE IsSubSeq(a, Tail(b))

\* the store without the segments of `gone` and without the colors that
\* leaves empty
Without(store, gone) ==
    SelectSeq([e \in 1..Len(store) |->
                  [color |-> store[e].color,
                   segments |-> SelectSeq(store[e].segments, LAMBDA g : g \notin gone)]],
              LAMBDA e : Len(e.segments) > 0)

\* the segments with an end on the cell of the key
Touching(store, key) ==
    {g \in AllSegments(store) : FirstKey(g) = key \/ LastKey(g) = key}

NoCellTwice(store) ==
    \A p, q \in Positions(store) :
        p # q => CellsOf(SegmentAt(store, p)) \cap CellsOf(SegmentAt(store, q)) = {}

\* C1: in every store the play session reaches (the UI thread's pathsShared
\* and the JS thread's pathsRef), no cell lies in two segments, of the same
\* color or of two colors.
C1_NoCellInTwoSegments == NoCellTwice(pathsShared) /\ NoCellTwice(pathsRef)

\* a release has just committed a path that ran over a segment of the store
C1_Witness ==
    /\ IsPathCase(commitCall)
    /\ pathsShared = commitCall.result.paths
    /\ \E g \in AllSegments(commitCall.paths) : CellsOf(g) \cap PathCells(commitCall) # {}
    /\ Cardinality(Positions(pathsShared)) >= 1

\* C2: after a path-case commit no segment other than the appended one holds
\* a cell of the path; every segment of the input that shared a cell with the
\* path is gone, and every other segment of the result is a segment of the
\* input, whole.
C2_IntersectedRemovedWhole ==
    IsPathCase(commitCall) =>
        /\ \A p \in SurvivorPositions(commitCall) :
               /\ CellsOf(SegmentAt(commitCall.result.paths, p)) \cap PathCells(commitCall) = {}
               /\ SegmentAt(commitCall.result.paths, p) \in AllSegments(commitCall.paths)
        /\ \A g \in AllSegments(commitCall.paths) :
               CellsOf(g) \cap PathCells(commitCall) # {} =>
                   \A p \in SurvivorPositions(commitCall) :
                       SegmentAt(commitCall.result.paths, p).id # g.id

\* the path crossed a segment of another color at a cell between its ends,
\* and that segment is gone
C2_Witness ==
    /\ IsPathCase(commitCall)
    /\ \E p \in Positions(commitCall.paths) :
           /\ commitCall.paths[p[1]].color # commitCall.session.color
           /\ Len(SegmentAt(commitCall.paths, p).cells) >= 3
           /\ CellsOf(SegmentAt(commitCall.paths, p)) \cap PathCells(commitCall)
                  = {SegmentAt(commitCall.paths, p).cells[2]}
           /\ SegmentAt(commitCall.paths, p) \notin AllSegments(commitCall.result.paths)

\* every segment of the store is one that was created, as it was created, and
\* no id was created with two cell sequences
C3_CellsOfIdFixed ==
    /\ AllSegments(pathsShared) \subseteq issued
    /\ \A g, h \in issued : g.id = h.id => g = h

\* a call leaves, in each color, the segments of its input store in their
\* order, some removed, and after them at most segments that did not exist
C3_SurvivorsInOrder ==
    \A c \in Colors :
        IsSubSeq(SelectSeq(SegmentsOf(pathsShared', c), LAMBDA g : g.id \in IssuedIds),
                 SegmentsOf(pathsShared, c))

\* C3: committed segments are immutable.  Every segment of a store returned
\* by commit or published by a drag start, the newly created one aside, is a
\* segment of the input store with the same id and cells, the survivors of a
\* color keep their order, and the cells of a segment id never change.
C3_SegmentsImmutable == []C3_CellsOfIdFixed /\ [][C3_SurvivorsInOrder]_vars

\* a call removed a segment and left two segments of one color behind
C3_Witness ==
    /\ commitCall.called
    /\ commitCall.result.didChange
    /\ AllSegments(commitCall.result.paths) \subseteq AllSegments(commitCall.paths)
    /\ AllSegments(commitCall.result.paths) # AllSegments(commitCall.paths)
    /\ \E c \in Colors : Len(SegmentsOf(commitCall.result.paths, c)) >= 2

NoEmptyColor(store) == \A e \in 1..Len(store) : Len(store[e].segments) > 0

\* C4: no color key of a store maps to an empty segment list: not in the
\* store a commit returns, not in pathsShared (written by commits and by drag
\* starts), not in pathsRef.
C4_NoEmptyColor ==
    /\ NoEmptyColor(pathsShared)
    /\ NoEmptyColor(pathsRef)
    /\ NoEmptyColor(commitCall.result.paths)

\* a commit has just removed the last segment of a color
C4_Witness ==
    /\ commitCall.called
    /\ commitCall.result.didChange
    /\ pathsShared = commitCall.result.paths
    /\ \E c \in Colors : HasColor(commitCall.paths, c) /\ ~HasColor(commitCall.result.paths, c)

DistinctIds(store) ==
    \A p, q \in Positions(store) : p # q => SegmentAt(store, p).id # SegmentAt(store, q).id

\* the id of the segment a path-case commit appends has not been used before
C5_FreshId ==
    IsPathCase(commitCall') =>
        SegmentAt(commitCall'.result.paths, AppendedPosition(commitCall')).id \notin IssuedIds

\* C5: within a play session the segment ids of a store are pairwise distinct,
\* and a commit never gives a new segment an id that was given before, whether
\* or not the earlier segment is still in the store.
C5_IdsUnique ==
    /\ [](DistinctIds(pathsShared) /\ DistinctIds(pathsRef))
    /\ [][C5_FreshId]_vars

\* the second segment of the session was committed after the first had gone
C5_Witness ==
    /\ IsPathCase(commitCall)
    /\ Cardinality(issued) = 2
    /\ Cardinality(Positions(pathsShared)) = 1
    /\ pathsShared = commitCall.result.paths

\* C6, as stated: from each commit call to the next the returned
\* nextSegmentId strictly increases.
C6_StrictlyIncreases ==
    [][commitCall.called /\ commitCall'.called =>
           commitCall'.result.nextSegmentId > commitCall.result.nextSegmentId]_vars

\* C6: from each commit call to the next the returned nextSegmentId never
\* decreases: it is one more after a path-case commit and the same after a
\* commit of a path of at most one cell.
C6_IncreasesOnAppendOnly ==
    [][commitCall.called /\ commitCall'.called =>
           commitCall'.result.nextSegmentId =
               commitCall.result.nextSegmentId
                   + (IF Len(commitCall'.session.path) >= 2 THEN 1 ELSE 0)]_vars

\* a second path-case commit was given the counter the first returned
C6_Witness ==
    /\ IsPathCase(commitCall)
    /\ commitCall.nextSegmentId = 1
    /\ commitCall.result.nextSegmentId = 2
    /\ segmentIdCounter = 2

\* C8: a commit of a single cell with hasMoved = false returns the counter it
\* was given and adds no segment; on a dot it returns the store without the
\* segments that begin or end on the cell, and didChange tells whether there
\* were any; on any other cell it returns the store as it was, didChange false.
C8_TapToDelete ==
    commitCall.called /\ IsTap(commitCall.session) =>
        /\ commitCall.result.nextSegmentId = commitCall.nextSegmentId
        /\ AllSegments(commitCall.result.paths) \subseteq AllSegments(commitCall.paths)
        /\ IF Truthy(Lookup(dotColorByKey, KeyOf(commitCall.session.path[1])))
           THEN /\ commitCall.result.paths =
                       Without(commitCall.paths,
                               Touching(commitCall.paths,
                                        KeyOf(commitCall.session.path[1])))
                /\ commitCall.result.didChange <=>
                       Touching(commitCall.paths, KeyOf(commitCall.session.path[1])) # {}
           ELSE /\ commitCall.result.paths = commitCall.paths
                /\ ~commitCall.result.didChange

\* a tap on the dot a segment ends on removed that segment
C8_Witness ==
    /\ commitCall.called
    /\ IsTap(commitCall.session)
    /\ commitCall.result.didChange
    /\ \E g \in AllSegments(commitCall.paths) :
           /\ LastKey(g) = KeyOf(commitCall.session.path[1])
           /\ Truthy(Lookup(dotColorByKey, FirstKey(g)))
           /\ g \notin AllSegments(commitCall.result.paths)

\* C9: a commit of an empty path, and a commit of a single cell with
\* hasMoved = true, return didChange = false, the store they were given and
\* the counter they were given.
C9_NoOpCommits ==
    /\ commitCall.called
    /\ \/ Len(commitCall.session.path) = 0
       \/ Len(commitCall.session.path) = 1 /\ commitCall.session.hasMoved
    => /\ ~commitCall.result.didChange
       /\ commitCall.result.paths = commitCall.paths
       /\ commitCall.result.nextSegmentId = commitCall.nextSegmentId

\* a drag that never left a dot was committed on a store with a segment
\* ending on that dot
C9_Witness ==
    /\ commitCall.called
    /\ Len(commitCall.session.path) = 1
    /\ commitCall.session.hasMoved
    /\ Touching(commitCall.paths, KeyOf(commitCall.session.path[1])) # {}

\* C10: a commit leaves the store object it was given as it was; with
\* didChange = false it returns that object; with didChange = true it returns
\* another object, which after a path-case commit holds the path as its newest
\* segment, no other segment on a cell of the path, and otherwise segments of
\* the input only.
C10_AtomicByValue ==
    commitCall.called =>
        /\ commitCall.result.input = commitCall.paths
        /\ ~commitCall.result.didChange =>
               commitCall.result.sameRef /\ commitCall.result.paths = commitCall.paths
        /\ commitCall.result.didChange => ~commitCall.result.sameRef
        /\ IsPathCase(commitCall) =>
               /\ commitCall.result.didChange
               /\ AppendedPosition(commitCall) # <<0, 0>>
               /\ SegmentAt(commitCall.result.paths, AppendedPosition(commitCall)).cells
                      = commitCall.session.path
               /\ \A p \in SurvivorPositions(commitCall) :
                      /\ SegmentAt(commitCall.result.paths, p) \in AllSegments(commitCall.paths)
                      /\ CellsOf(SegmentAt(commitCall.result.paths, p))
                             \cap PathCells(commitCall) = {}

\* a path-case commit removed a segment, and the store it was given still
\* holds it
C10_Witness ==
    /\ IsPathCase(commitCall)
    /\ commitCall.result.didChange
    /\ ~commitCall.result.sameRef
    /\ commitCall.result.input = commitCall.paths
    /\ \E g \in AllSegments(commitCall.result.input) :
           g \notin AllSegments(commitCall.result.paths)

\* C11: a commit of a path of two or more cells returns didChange = true and
\* the counter it was given plus one; the list of the session's color ends
\* with a segment whose cells are the path, in order, and whose id is made of
\* idSeed and the counter given; that segment is the only one of the result
\* that the input did not hold.
C11_AppendsThePath ==
    IsPathCase(commitCall) =>
        /\ commitCall.result.didChange
        /\ commitCall.result.nextSegmentId = commitCall.nextSegmentId + 1
        /\ AppendedPosition(commitCall) # <<0, 0>>
        /\ SegmentAt(commitCall.result.paths, AppendedPosition(commitCall)) =
               [id |-> "segment-" \o ToString(commitCall.idSeed) \o "-"
                           \o ToString(commitCall.nextSegmentId),
                cells |-> commitCall.session.path]
        /\ \A p \in SurvivorPositions(commitCall) :
               SegmentAt(commitCall.result.paths, p) \in AllSegments(commitCall.paths)
        /\ Cardinality(NewSegments(commitCall)) = 1

\* the path was appended after a segment of its color that stayed
C11_Witness ==
    /\ IsPathCase(commitCall)
    /\ Len(commitCall.session.path) = 3
    /\ Len(SegmentsOf(commitCall.result.paths, commitCall.session.color)) = 2
    /\ commitCall.result.nextSegmentId = 2

\* the segment has its first or its last cell in the area
TerminatesIn(g, area) ==
    \/ AreaLookup(areaByKey, FirstKey(g)) = area
    \/ AreaLookup(areaByKey, LastKey(g)) = area

\* the area of the cell when the cell is a dot of the color, else NoArea
DotArea(cell, color) ==
    IF Lookup(dotColorByKey, KeyOf(cell)) = color
    THEN AreaLookup(areaByKey, KeyOf(cell)) ELSE NoArea

\* no segment of the result other than the appended one is a segment of the
\* call's color that the input held with an end in the area
SweptOf(call, area) ==
    \A i \in 1..Len(SegmentsOf(call.paths, call.session.color)) :
        TerminatesIn(SegmentsOf(call.paths, call.session.color)[i], area) =>
            \A p \in SurvivorPositions(call) :
                SegmentAt(call.result.paths, p).id
                    # SegmentsOf(call.paths, call.session.color)[i].id

ColorSegments(store, color) ==
    {SegmentsOf(store, color)[i] : i \in 1..Len(SegmentsOf(store, color))}

\* the cell of the start call is an open dot
StartedOnDot ==
    /\ startCall.called
    /\ KeyOf(startCall.startCell) \in openSetByKey
    /\ Truthy(Lookup(dotColorByKey, KeyOf(startCall.startCell)))

\* the segments of the start dot's color that the store held with an end in
\* the start dot's area
AreaOccupants ==
    {g \in ColorSegments(startCall.paths,
                         Lookup(dotColorByKey, KeyOf(startCall.startCell))) :
        /\ AreaLookup(areaByKey, KeyOf(startCall.startCell)) # NoArea
        /\ TerminatesIn(g, AreaLookup(areaByKey, KeyOf(startCall.startCell)))}

\* C13: when the store holds two or more segments of a color, each with its
\* first or last cell in an area, a drag started on a dot of that color in
\* that area removes all of them from the shared store at start, before any
\* commit.
C13_AreaEvictionAtStart ==
    StartedOnDot /\ Cardinality(AreaOccupants) >= 2 =>
        /\ AreaOccupants \cap AllSegments(pathsShared) = {}
        /\ AreaOccupants \cap AllSegments(startCall.result.paths) = {}

\* two segments ended in the start dot's area, neither on the start dot, and
\* the start removed both
C13_Witness ==
    /\ StartedOnDot
    /\ Cardinality({g \in AreaOccupants :
                       /\ FirstKey(g) # KeyOf(startCall.startCell)
                       /\ LastKey(g) # KeyOf(startCall.startCell)}) = 2
    /\ AreaOccupants \cap AllSegments(pathsShared) = {}
    /\ pathsMutated = 1

\* the segments of the start dot's color that the store held with an end on
\* the start cell
EndpointOccupants ==
    {g \in ColorSegments(startCall.paths,
                         Lookup(dotColorByKey, KeyOf(startCall.startCell))) :
        FirstKey(g) = KeyOf(startCall.startCell) \/ LastKey(g) = KeyOf(startCall.startCell)}

\* C14: a drag started on an open dot cell has, as soon as the start returns
\* and before any update of the session, removed from the shared store the
\* segments of the dot's color with an end on the start cell and those with
\* an end in the start cell's area; the other segments that do not end on
\* the start cell are still there; and the start raised the mutation flag
\* exactly when it removed a segment.
C14_EvictionAtStart ==
    StartedOnDot =>
        /\ pathsShared = startCall.result.paths
        /\ (EndpointOccupants \cup AreaOccupants) \cap AllSegments(pathsShared) = {}
        /\ AllSegments(pathsShared) \subseteq AllSegments(startCall.paths)
        /\ \A g \in AllSegments(startCall.paths) \ (EndpointOccupants \cup AreaOccupants) :
               \/ g \in AllSegments(pathsShared)
               \/ KeyOf(startCall.startCell) \in {FirstKey(g), LastKey(g)}
        /\ IF AllSegments(pathsShared) # AllSegments(startCall.paths)
           THEN pathsMutated = 1
           ELSE pathsMutated = startCall.mutated

\* the start has just returned a session of one cell, having removed a
\* segment that ended on the start dot and another that only ended in its area
C14_Witness ==
    /\ StartedOnDot
    /\ ~updateCall.called
    /\ dragSession.path = <<startCall.startCell>>
    /\ EndpointOccupants # {}
    /\ AreaOccupants \ EndpointOccupants # {}
    /\ (EndpointOccupants \cup AreaOccupants) \cap AllSegments(pathsShared) = {}
    /\ startCall.mutated = 0
    /\ pathsMutated = 1

\* the step is the worklet that stopDrawing runs on the UI thread
ReleaseStep ==
    /\ uiQueue # <<>>
    /\ Head(uiQueue).kind = "stopDrawing"
    /\ uiQueue' = Tail(uiQueue)
    /\ Len(jsQueue') = Len(jsQueue) + 1

\* the step is the application's finalizeCommitFromPayload
FinalizeStep ==
    /\ jsQueue # <<>>
    /\ Head(jsQueue).kind = "finalize"
    /\ jsQueue' = Tail(jsQueue)

\* at the release of a drag whose start removed a segment, the call handed to
\* the application carries didChange = true and the shared store as it is
\* then, which is the store the start left when the release commits nothing
C15_ReleaseReports ==
    ReleaseStep /\ startCall.called /\ startCall.result.removed =>
        /\ jsQueue'[Len(jsQueue')].kind = "finalize"
        /\ jsQueue'[Len(jsQueue')].didChange
        /\ deserializePaths(jsQueue'[Len(jsQueue')].payload) = pathsShared'
        /\ ~commitCall'.called =>
               deserializePaths(jsQueue'[Len(jsQueue')].payload) = startCall.result.paths

\* the application takes the store it is handed
C15_ApplicationTakes ==
    FinalizeStep /\ Head(jsQueue).didChange =>
        pathsRef' = deserializePaths(Head(jsQueue).payload)

\* C15: an eviction made at drag start is reported on release: the
\* application is handed didChange = true and the current shared store, also
\* when the drag commits nothing, and its own store is then the store the
\* eviction left.
C15_EvictionReported ==
    [][C15_ReleaseReports /\ C15_ApplicationTakes]_vars

\* a segment of the store the start call found holds the start cell
StartCellCovered ==
    \E g \in AllSegments(startCall.paths) : startCall.startCell \in CellsOf(g)

\* C16: start returns null exactly when the start cell is not in the open
\* set, or is neither a dot nor a cell of any segment; a start that returns
\* null leaves the shared store and the mutation flag as they were.
C16_StartRefusal ==
    startCall.called =>
        /\ ~startCall.result.ok <=>
               \/ KeyOf(startCall.startCell) \notin openSetByKey
               \/ /\ ~Truthy(Lookup(dotColorByKey, KeyOf(startCall.startCell)))
                  /\ ~StartCellCovered
        /\ ~startCall.result.ok =>
               /\ startCall.result.session = NoSession
               /\ pathsShared = startCall.paths
               /\ pathsMutated = startCall.mutated

\* a start on an open cell that is no dot and that no segment of a store
\* with segments covers returned null
C16_Witness ==
    /\ startCall.called
    /\ ~startCall.result.ok
    /\ KeyOf(startCall.startCell) \in openSetByKey
    /\ AllSegments(startCall.paths) # {}
    /\ pathsShared = startCall.paths
    /\ dragSession = NoSession

\* the places <<entry, segment, index>> of the start cell in the store the
\* start call found
PickupPlaces ==
    {h \in UNION {{<<p[1], p[2], i>> : i \in 1..Len(SegmentAt(startCall.paths, p).cells)} :
                  p \in Positions(startCall.paths)} :
        SegmentAt(startCall.paths, <<h[1], h[2]>>).cells[h[3]] = startCall.startCell}

\* the start call is a pickup: on an open cell that is no dot
StartedOnSegment ==
    /\ startCall.called
    /\ KeyOf(startCall.startCell) \in openSetByKey
    /\ ~Truthy(Lookup(dotColorByKey, KeyOf(startCall.startCell)))
    /\ PickupPlaces # {}

\* the side of the segment the pickup rule keeps, from its own end cell to
\* the cell at index i
PickupSide(cells, i, color) ==
    LET leftDot == Lookup(dotColorByKey, KeyOf(cells[1])) = color
        rightDot == Lookup(dotColorByKey, KeyOf(cells[Len(cells)])) = color
        left == [k \in 1..i |-> cells[k]]
        right == [k \in 1..(Len(cells) - i + 1) |-> cells[Len(cells) + 1 - k]]
    IN  IF leftDot /\ ~rightDot THEN left
        ELSE IF rightDot /\ ~leftDot THEN right
        ELSE IF Len(left) >= Len(right) THEN left ELSE right

\* C17: a drag started on the cell at index i of a segment starts with the
\* segment's color, no axis, not locked, not moved, and with one side of the
\* segment split at i as its path, from that side's own end cell to the
\* picked-up cell: the side that ends on a dot of the color when exactly one
\* does, else the longer side, the first side on a tie.
C17_PickupRule ==
    StartedOnSegment =>
        \A h \in PickupPlaces :
            /\ startCall.result.ok
            /\ startCall.result.session =
                   [color |-> startCall.paths[h[1]].color,
                    path |-> PickupSide(SegmentAt(startCall.paths, <<h[1], h[2]>>).cells,
                                        h[3], startCall.paths[h[1]].color),
                    axis |-> "null", locked |-> FALSE, hasMoved |-> FALSE]
            /\ startCall.result.session.path[Len(startCall.result.session.path)]
                   = startCall.startCell

\* a pickup kept the longer, second side of a segment with no dot at either
\* end, turned round
C17_Witness ==
    /\ StartedOnSegment
    /\ ~updateCall.called
    /\ \E h \in PickupPlaces :
           \E cells \in {SegmentAt(startCall.paths, <<h[1], h[2]>>).cells} :
               /\ ~Truthy(Lookup(dotColorByKey, KeyOf(cells[1])))
               /\ ~Truthy(Lookup(dotColorByKey, KeyOf(cells[Len(cells)])))
               /\ Len(dragSession.path) > h[3]
               /\ dragSession.path[1] = cells[Len(cells)]
               /\ dragSession.path[Len(dragSession.path)] = startCall.startCell

\* the start call picks up, at its second cell (0,1), a segment with the cells
\* (0,0), (0,1), (0,2), (0,3), where (0,0) is a red dot and (0,3) is no dot
PickupExample ==
    /\ startCall.called
    /\ startCall.startCell = Cell(0, 1)
    /\ Lookup(dotColorByKey, KeyOf(Cell(0, 0))) = Red
    /\ ~Truthy(Lookup(dotColorByKey, KeyOf(Cell(0, 3))))
    /\ \E g \in ColorSegments(startCall.paths, Red) :
           g.cells = <<Cell(0, 0), Cell(0, 1), Cell(0, 2), Cell(0, 3)>>

\* C18, as stated: the pickup of the example yields the path (0,1), (0,0).
C18_PickupExampleAsStated ==
    PickupExample => startCall.result.session.path = <<Cell(0, 1), Cell(0, 0)>>

\* C18: the pickup of the example yields the dot side although the other
\* side is longer, from the dot to the picked-up cell: (0,0), (0,1).
C18_PickupExample ==
    PickupExample =>
        /\ startCall.result.ok
        /\ startCall.result.session.color = Red
        /\ startCall.result.session.path = <<Cell(0, 0), Cell(0, 1)>>

\* the start of the example has just returned
C18_Witness ==
    /\ PickupExample
    /\ ~updateCall.called
    /\ dragSession = startCall.result.session
    /\ Len(dragSession.path) = 2

\* the cells (x, y+1) .. (x, y+k) below a cell
Below(cell, k) == [j \in 1..k |-> Cell(cell.x, cell.y + j)]

\* the update call was made on a session of one cell without an axis, with
\* the pointer in the cell k rows below it, the k cells below it being open
\* and without a dot
StraightDown(k) ==
    /\ updateCall.called
    /\ Len(updateCall.session.path) = 1
    /\ updateCall.session.axis = "null"
    /\ toCell(updateCall.localX, updateCall.localY)
           = Cell(updateCall.session.path[1].x, updateCall.session.path[1].y + k)
    /\ \A j \in 1..k :
           /\ KeyOf(Below(updateCall.session.path[1], k)[j]) \in openSetByKey
           /\ ~Truthy(Lookup(dotColorByKey, KeyOf(Below(updateCall.session.path[1], k)[j])))

\* C19: one update of a session whose path is the single cell (x,y), with no
\* axis, by a pointer in the cell (x,y+k), k >= 1, where the cells (x,y+1) to
\* (x,y+k) are open and none is a dot, yields the path (x,y), (x,y+1), ..,
\* (x,y+k) and the axis y.
C19_StraightLineGrowth ==
    \A k \in 1..(rows - 1) :
        StraightDown(k) =>
            /\ updateCall.result.session.path
                   = <<updateCall.session.path[1]>> \o Below(updateCall.session.path[1], k)
            /\ updateCall.result.session.axis = "y"
            /\ dragSession = updateCall.result.session

\* the update of the example: from (2,2) with the pointer in (2,5)
C19_Witness ==
    /\ StraightDown(3)
    /\ updateCall.session.path = <<Cell(2, 2)>>
    /\ dragSession.path = <<Cell(2, 2), Cell(2, 3), Cell(2, 4), Cell(2, 5)>>
    /\ dragSession.axis = "y"

\* every two consecutive cells of the path differ by 1 on exactly one axis
Manhattan(path) ==
    \A i \in 1..(Len(path) - 1) :
        \/ path[i].x = path[i + 1].x /\ Abs(path[i].y - path[i + 1].y) = 1
        \/ path[i].y = path[i + 1].y /\ Abs(path[i].x - path[i + 1].x) = 1

\* C20: in every state of a drag session, after its start and after each of
\* its updates, every two consecutive cells of the session's path are
\* orthogonal neighbours: no update makes a diagonal step or a step of more
\* than one cell.
C20_ManhattanMovement ==
    /\ Manhattan(dragSession.path)
    /\ startCall.called => Manhattan(startCall.result.session.path)
    /\ updateCall.called => Manhattan(updateCall.result.session.path)

\* an update whose pointer was in a cell off both the column and the row of
\* the path's last cell has grown the path, which now has a bend
C20_Witness ==
    /\ updateCall.called
    /\ updateCall.result.pathChanged
    /\ \E last \in {updateCall.session.path[Len(updateCall.session.path)]} :
           /\ toCell(updateCall.localX, updateCall.localY).x # last.x
           /\ toCell(updateCall.localX, updateCall.localY).y # last.y
    /\ Len(dragSession.path) > Len(updateCall.session.path)
    /\ \E i \in 2..(Len(dragSession.path) - 1) :
           /\ dragSession.path[i - 1].x # dragSession.path[i + 1].x
           /\ dragSession.path[i - 1].y # dragSession.path[i + 1].y

(***************************************************************************)
(* Properties of the drag session's path.                                  *)
(***************************************************************************)
\* every cell of the path is an open cell of the level and none is a dot of
\* another color
CellsAllowed(color, path) ==
    \A i \in 1..Len(path) :
        /\ path[i] \in Levels[level].open
        /\ Lookup(Levels[level].dots, KeyOf(path[i])) \in {Undefined, color}

\* the store a release of the session would commit (part_002, lines 899-916)
ReleasedStore ==
    commitDragWorklet(pathsShared, DrawnSession(dragSession.color, dragSession.path),
                      dotColorByKey, areaByKey, segmentIdSeed, segmentIdCounter).paths

\* C21: in every state of a drag session, after its start and after each of
\* its updates, every cell of the session's path is open and none is a dot of
\* a color other than the session's; and the store a release would commit in
\* that state holds no segment with a closed cell or with a dot of another
\* color.
C21_PathStaysAllowed ==
    dragSession # NoSession =>
        /\ CellsAllowed(dragSession.color, dragSession.path)
        /\ \A e \in 1..Len(ReleasedStore) :
               \A g \in 1..Len(ReleasedStore[e].segments) :
                   CellsAllowed(ReleasedStore[e].color, ReleasedStore[e].segments[g].cells)

\* an update whose pointer was in a closed cell has grown the path along the
\* locked axis, up to the pointer's row or column
C21_Witness ==
    /\ updateCall.called
    /\ toCell(updateCall.localX, updateCall.localY) \notin Levels[level].open
    /\ toCell(updateCall.localX, updateCall.localY).x < cols
    /\ toCell(updateCall.localX, updateCall.localY).y < rows
    /\ updateCall.result.pathChanged
    /\ Len(dragSession.path) > Len(updateCall.session.path)

\* the cell is a dot of the color
OwnDot(color, cell) == Lookup(Levels[level].dots, KeyOf(cell)) = color

\* a is the first cells of b
IsPrefix(a, b) == Len(a) <= Len(b) /\ SubSeq(b, 1, Len(a)) = a

\* the number of leading cells two paths share
SharedPrefix(a, b) ==
    Max({n \in 0..Min({Len(a), Len(b)}) : SubSeq(a, 1, n) = SubSeq(b, 1, n)})

\* C22, first part: a dot of the session's color among the cells an update
\* has appended is the path's last cell, and the session is then locked.
C22_LocksOnOwnDot ==
    updateCall.called =>
        \A i \in (SharedPrefix(updateCall.session.path, updateCall.result.session.path) + 1)
                     ..Len(updateCall.result.session.path) :
            OwnDot(updateCall.session.color, updateCall.result.session.path[i]) =>
                /\ i = Len(updateCall.result.session.path)
                /\ updateCall.result.session.locked

\* C22, last part: after the start and after every update, a locked session
\* has a path of at least two cells that ends on a dot of its color.
C22_LockedOnDot ==
    dragSession.locked =>
        /\ Len(dragSession.path) >= 2
        /\ OwnDot(dragSession.color, dragSession.path[Len(dragSession.path)])

\* C22, as stated: besides the two parts above, an update of a locked session
\* appends no cell: it leaves the path the same or a shorter beginning of it.
C22_LockedNeverGrows ==
    /\ C22_LocksOnOwnDot
    /\ C22_LockedOnDot
    /\ updateCall.called /\ updateCall.session.locked =>
           IsPrefix(updateCall.result.session.path, updateCall.session.path)

\* C22: an update that appends a dot of the session's color locks the session
\* and stops there; an update of a locked session appends no cell unless it
\* has first backtracked off the dot (a path that still begins with the whole
\* locked path is that path); and a locked session's path has at least two
\* cells and ends on a dot of its color.
C22_LockOnOwnDot ==
    /\ C22_LocksOnOwnDot
    /\ C22_LockedOnDot
    /\ updateCall.called /\ updateCall.session.locked =>
           \/ updateCall.result.session.path = updateCall.session.path
           \/ ~IsPrefix(updateCall.session.path, updateCall.result.session.path)

\* an update of a locked session has backtracked off the dot and then grown
\* the path past the bend
C22_Witness ==
    /\ updateCall.called
    /\ updateCall.session.locked
    /\ updateCall.result.pathChanged
    /\ ~IsPrefix(dragSession.path, updateCall.session.path)
    /\ SharedPrefix(dragSession.path, updateCall.session.path)
           = Len(updateCall.session.path) - 1
    /\ Len(dragSession.path) >= Len(updateCall.session.path)

(***************************************************************************)
(* Properties of the hand-off between the threads.                         *)
(***************************************************************************)
\* the step is the stopDrawing worklet of a gesture that was cancelled (no
\* later gesture has begun: the recognizer is still in its cancelled state)
CancelledRelease ==
    /\ phase \in {"cancelling", "cancelled"}
    /\ uiQueue # <<>>
    /\ Head(uiQueue).kind = "stopDrawing"
    /\ uiQueue' = Tail(uiQueue)

\* C23: the release of a cancelled draw gesture does not call
\* commitDragWorklet, adds no segment and leaves the Path Store as it was.
C23_CancelDiscards ==
    [][CancelledRelease =>
           /\ ~commitCall'.called
           /\ issued' = issued
           /\ pathsShared' = pathsShared]_vars

\* the step is the stopDrawing worklet of a released gesture
ReleaseWorklet ==
    /\ uiQueue # <<>>
    /\ Head(uiQueue).kind = "stopDrawing"
    /\ uiQueue' = Tail(uiQueue)

\* C24, first half: the worklet of a release commits the path and the color
\* the released gesture's session held, and commits them whenever that path
\* has two cells or more.
C24_CommitsReleasedPath ==
    ReleaseWorklet =>
        /\ commitCall'.called =>
               /\ commitCall'.session.color = Head(uiQueue).color
               /\ commitCall'.session.path = unflattenCells(Head(uiQueue).payload)
        /\ Len(Head(uiQueue).payload) >= 4 => commitCall'.called

\* C24, second half: the finalization of a release leaves the drawing flag,
\* the preview and the color of a later gesture that is drawing as they are.
C24_FinalizeSparesLiveGesture ==
    (/\ jsQueue # <<>>
     /\ Head(jsQueue).kind = "finalize"
     /\ jsQueue' = Tail(jsQueue)
     /\ phase = "active"
     /\ gestureMode = MODE_DRAW
     /\ isDrawing = 1) =>
        /\ isDrawing' = isDrawing
        /\ previewCells' = previewCells
        /\ dragColor' = dragColor

\* C24: under every interleaving of the two threads, the commit of a release
\* takes the path and the color of the released gesture's session, and its
\* finalization does not clear the preview or the drawing flag of a later
\* gesture.
C24_ReleaseIsolated ==
    [][C24_CommitsReleasedPath /\ C24_FinalizeSparesLiveGesture]_vars

\* the payload and the store of a round trip through the hand-off format
RoundTrip(store) ==
    /\ serializePaths(deserializePaths(serializePaths(store))) = serializePaths(store)
    /\ deserializePaths(serializePaths(store)) = store

\* C25: for every store the calls reach, deserializing its payload and
\* serializing the result gives the same payload, and deserializing its
\* payload gives the store itself: the colors in their order, each color's
\* segments in their order, the ids and the cells in their order.
C25_RoundTrip ==
    /\ RoundTrip(pathsShared)
    /\ commitCall.called => RoundTrip(commitCall.result.paths)

\* a commit has just returned a store of two colors, one of them with two
\* segments, whose payload has as many entries, segments and numbers
C25_Witness ==
    /\ commitCall.called
    /\ pathsShared = commitCall.result.paths
    /\ Len(pathsShared) = 2
    /\ \E e \in 1..2 : Len(pathsShared[e].segments) = 2
    /\ Len(serializePaths(pathsShared)) = 2
    /\ \A e \in 1..2 :
           /\ serializePaths(pathsShared)[e].color = pathsShared[e].color
           /\ \A g \in 1..Len(pathsShared[e].segments) :
                  Len(serializePaths(pathsShared)[e].segments[g].cells)
                      = 2 * Len(pathsShared[e].segments[g].cells)

(***************************************************************************)
(* Further properties of the Path Store.                                   *)
(***************************************************************************)
\* the area ids of the level
AreaIds == {Levels[level].areas[k] : k \in DOMAIN Levels[level].areas}

\* the places of the segments of the color with an end in the area
TerminatingIn(store, color, area) ==
    {p \in Positions(store) :
        /\ store[p[1]].color = color
        /\ TerminatesIn(SegmentAt(store, p), <<area>>)}

\* C26: in every store the play session reaches, on the UI thread and in the
\* application, at most one segment of a color has its first or its last
\* cell in a given area.
C26_AreaExclusive ==
    \A color \in Colors, area \in AreaIds :
        /\ Cardinality(TerminatingIn(pathsShared, color, area)) <= 1
        /\ Cardinality(TerminatingIn(pathsRef, color, area)) <= 1

\* the two removals by key set, given no key, return the store as it is and
\* report no removal
EmptyKeysNoOp(store) ==
    /\ removeSegmentsIntersecting(store, {}) = [paths |-> store, removed |-> FALSE]
    /\ removeSegmentsWithEndpoints(store, {}) = [paths |-> store, removed |-> FALSE]

\* C27: removeSegmentsIntersecting and removeSegmentsWithEndpoints called
\* with an empty key set leave the store unchanged and report that nothing
\* was removed: for every store the calls reach, for the store every commit
\* was given, and for such a store with one more color that has no segments.
C27_EmptyKeysNoOp ==
    /\ EmptyKeysNoOp(pathsShared)
    /\ EmptyKeysNoOp(commitCall.paths)
    /\ \A color \in Colors :
           ~HasColor(pathsShared, color) =>
               EmptyKeysNoOp(Append(pathsShared, [color |-> color, segments |-> <<>>]))

\* a commit has returned a store of three segments in two colors: a key of
\* one of its cells removes a segment, no key removes none
C27_Witness ==
    /\ commitCall.called
    /\ pathsShared = commitCall.result.paths
    /\ Cardinality(Positions(pathsShared)) = 3
    /\ Len(pathsShared) = 2
    /\ removeSegmentsIntersecting(pathsShared, {KeyOf(Cell(0, 1))}).removed
    /\ removeSegmentsWithEndpoints(pathsShared, {KeyOf(Cell(0, 0))}).removed
    /\ ~removeSegmentsIntersecting(pathsShared, {}).removed
    /\ ~removeSegmentsWithEndpoints(pathsShared, {}).removed
    /\ removeSegmentsIntersecting(pathsShared, {}).paths = pathsShared

(***************************************************************************)
(* Properties of one update of the drag session.                           *)
(***************************************************************************)
\* the clamped pointer and the target cell of the update call
UpdateClamped == ClampedPointer(updateCall.localX, updateCall.localY, openBounds)
UpdateTarget == PointerCell(UpdateClamped, openBounds)
UpdateLast == updateCall.session.path[Len(updateCall.session.path)]

\* the axes the stated rule selects when no axis is locked: the one axis on
\* which the target cell differs from the last cell; on a difference on both,
\* the axis of the larger pixel delta from the last cell's centre (either one
\* on equal deltas); none when the target is the last cell
StatedAxes ==
    IF UpdateTarget = UpdateLast THEN {"null"}
    ELSE IF UpdateTarget.y = UpdateLast.y THEN {"x"}
    ELSE IF UpdateTarget.x = UpdateLast.x THEN {"y"}
    ELSE LET deltaX == Abs(2 * UpdateClamped.x - cellCenter2(UpdateLast, size).x)
             deltaY == Abs(2 * UpdateClamped.y - cellCenter2(UpdateLast, size).y)
         IN  {axis \in {"x", "y"} : \/ axis = "x" /\ deltaX >= deltaY
                                    \/ axis = "y" /\ deltaY >= deltaX}

\* C28: an update of a session without an axis, whatever cell of the open
\* bounding box the pointer is in, open or closed, steps the path along the
\* axis the stated rule selects, toward the target until blocked, and leaves
\* the path as it is when the target is the last cell.
C28_AxisResolution ==
    (updateCall.called /\ updateCall.session.axis = "null") =>
        \E axis \in StatedAxes :
            updateCall.result = UpdateAlong(updateCall.session, axis, UpdateTarget)

\* the axis of the update call and the first candidate cell of its stepping
UpdateAxis == AxisOf(updateCall.session, UpdateLast, UpdateClamped, UpdateTarget)
FirstCandidate ==
    IF UpdateAxis = "x"
    THEN Cell(UpdateLast.x + Sign(UpdateTarget.x - UpdateLast.x), UpdateLast.y)
    ELSE Cell(UpdateLast.x, UpdateLast.y + Sign(UpdateTarget.y - UpdateLast.y))

\* the first step of the update call is a backtrack: its candidate is the
\* second-to-last cell of the path
FirstStepBacktracks ==
    /\ updateCall.called
    /\ Len(updateCall.session.path) >= 2
    /\ UpdateAxis # "null"
    /\ FirstCandidate # UpdateLast
    /\ FirstCandidate = updateCall.session.path[Len(updateCall.session.path) - 1]

\* the session of the update call without its last cell and without the lock
Retracted ==
    [updateCall.session EXCEPT
        !.path = SubSeq(updateCall.session.path, 1, Len(updateCall.session.path) - 1),
        !.locked = FALSE]

\* C29: when the first candidate of an update is the second-to-last cell of
\* the path, the last cell is removed, the lock is cleared and stepping goes
\* on toward the target from there (the update returns what it returns for
\* the retracted, unlocked session, with pathChanged set), whether or not the
\* session was locked; and an update with the pointer in the second-to-last
\* cell returns the path without its last cell, unlocked.
C29_Backtrack ==
    /\ FirstStepBacktracks =>
           updateCall.result
               = [UpdateAlong(Retracted, UpdateAxis, UpdateTarget) EXCEPT !.pathChanged = TRUE]
    /\ (/\ updateCall.called
        /\ Len(updateCall.session.path) >= 2
        /\ UpdateTarget = updateCall.session.path[Len(updateCall.session.path) - 1]) =>
           /\ FirstStepBacktracks
           /\ updateCall.result.session.path = Retracted.path
           /\ ~updateCall.result.session.locked
           /\ updateCall.result.pathChanged

\* an update of a locked session with the pointer in the second-to-last cell
\* has taken the dot off the path and unlocked the session
C29_Witness ==
    /\ updateCall.called
    /\ updateCall.session.locked
    /\ UpdateTarget = updateCall.session.path[Len(updateCall.session.path) - 1]
    /\ dragSession.path = Retracted.path
    /\ ~dragSession.locked

\* the places of the first candidate of the update call in its path, before
\* the second-to-last cell
EarlierPlaces ==
    {k \in 1..(Len(updateCall.session.path) - 2) :
        updateCall.session.path[k] = FirstCandidate}

\* the first candidate of the update call is a cell of the path before the
\* second-to-last one
FirstStepIntersects ==
    /\ updateCall.called
    /\ UpdateAxis # "null"
    /\ FirstCandidate # UpdateLast
    /\ EarlierPlaces # {}

\* the path of the update call's result ends at the earlier occurrence of
\* the candidate, the result is not locked, and the path changed
ShortcutTaken ==
    \A k \in EarlierPlaces :
        /\ updateCall.result.session.path = SubSeq(updateCall.session.path, 1, k)
        /\ ~updateCall.result.session.locked
        /\ updateCall.result.pathChanged

\* C30, as stated: whenever the first candidate of an update occurs in the
\* path before the second-to-last cell, the update returns the path cut to
\* end at that occurrence, unlocked, and takes no further step.
C30_ShortcutAlways == FirstStepIntersects => ShortcutTaken

\* C30: when the session is not locked and the first candidate of an update
\* occurs in the path before the second-to-last cell, the update returns the
\* path cut to end at that occurrence, unlocked, and takes no further step;
\* when the session is locked, the update returns it as it is.
C30_SelfIntersection ==
    /\ (FirstStepIntersects /\ ~updateCall.session.locked) => ShortcutTaken
    /\ (FirstStepIntersects /\ updateCall.session.locked) =>
           /\ updateCall.result.session.path = updateCall.session.path
           /\ updateCall.result.session.locked
           /\ ~updateCall.result.pathChanged

\* an update of an unlocked session of four cells or more has cut the path
\* back to an earlier cell that is not its first, although the target lies
\* further on
C30_Witness ==
    /\ FirstStepIntersects
    /\ ~updateCall.session.locked
    /\ Len(updateCall.session.path) >= 4
    /\ Len(dragSession.path) >= 2
    /\ Len(dragSession.path) <= Len(updateCall.session.path) - 2
    /\ IsPrefix(dragSession.path, updateCall.session.path)
    /\ UpdateTarget # dragSession.path[Len(dragSession.path)]

\* no cell occurs twice in the path
Simple(path) == \A i, j \in 1..Len(path) : path[i] = path[j] => i = j

\* C31: after the start and after every update of a drag session no cell
\* occurs twice in the session's path, and no segment of the store that a
\* release would commit in that state holds a cell twice.
C31_SimplePath ==
    dragSession # NoSession =>
        /\ Simple(dragSession.path)
        /\ \A e \in 1..Len(ReleasedStore) :
               \A g \in 1..Len(ReleasedStore[e].segments) :
                   Simple(ReleasedStore[e].segments[g].cells)

\* an update whose first candidate was a cell of the path, other than the
\* previous one, has left a path of two cells or more
C31_Witness ==
    /\ FirstStepIntersects
    /\ Len(updateCall.session.path) >= 5
    /\ Len(dragSession.path) >= 2
    /\ Len(ReleasedStore) >= 1

\* the stepping loop of the update call as it is entered, and its target
\* coordinate along the axis of the call
LoopEntry ==
    [path |-> updateCall.session.path, locked |-> updateCall.session.locked,
     hasMoved |-> updateCall.session.hasMoved, pathChanged |-> FALSE]
TargetCoord == IF UpdateAxis = "x" THEN UpdateTarget.x ELSE UpdateTarget.y

\* the loop of the update call after m iterations, or at its end if it ends
\* before
RunFor(m) ==
    StepLoop(LoopEntry, UpdateAxis, TargetCoord, updateCall.session.color, StepGuard - m)

\* how far the loop's last cell is from the target along the axis
TipDistance(st) ==
    LET current == st.path[Len(st.path)]
    IN  Abs(TargetCoord - (IF UpdateAxis = "x" THEN current.x ELSE current.y))

\* the path of b is the path of a with one cell appended or with its last
\* cell removed
OneStep(a, b) ==
    \/ Len(b.path) = Len(a.path) + 1 /\ SubSeq(b.path, 1, Len(a.path)) = a.path
    \/ Len(a.path) = Len(b.path) + 1 /\ SubSeq(a.path, 1, Len(b.path)) = b.path

\* C32: the stepping loop of every update ends: it ends within the guard of
\* 256 iterations, every iteration that does not end it leaves the last cell
\* exactly one cell nearer to the target along the axis, by one cell appended
\* or one removed, no iteration moves the last cell further than one cell,
\* and after as many iterations as the last cell was from the target the
\* loop is at its end, which is the path the update returns.
C32_UpdateTerminates ==
    (updateCall.called /\ UpdateAxis # "null") =>
        /\ TipDistance(LoopEntry) < StepGuard
        /\ \A m \in 1..TipDistance(LoopEntry) :
               /\ TipDistance(RunFor(m)) >= TipDistance(LoopEntry) - m
               /\ RunFor(m) # RunFor(StepGuard) =>
                      /\ TipDistance(RunFor(m)) = TipDistance(LoopEntry) - m
                      /\ OneStep(RunFor(m - 1), RunFor(m))
        /\ RunFor(TipDistance(LoopEntry)) = RunFor(StepGuard)
        /\ RunFor(StepGuard) = Stepped(updateCall.session, UpdateAxis, UpdateTarget)
        /\ updateCall.result.session.path = RunFor(StepGuard).path

\* an update whose loop removed a cell in its first iteration, appended one
\* in its second and went on to a third
C32_Witness ==
    /\ updateCall.called
    /\ UpdateAxis # "null"
    /\ TipDistance(LoopEntry) >= 3
    /\ Len(RunFor(1).path) < Len(LoopEntry.path)
    /\ Len(RunFor(2).path) > Len(RunFor(1).path)
    /\ RunFor(2) # RunFor(StepGuard)
    /\ dragSession.path = RunFor(StepGuard).path

\* the session has a path, and with a path of one cell it has no axis and
\* no lock
WellFormed(session) ==
    /\ Len(session.path) >= 1
    /\ Len(session.path) = 1 => (session.axis = "null" /\ ~session.locked)

\* C33: after the start and after every update the session's path has at
\* least one cell, and whenever it has exactly one cell the session has no
\* axis and is not locked.
C33_SingleCellNoAxis ==
    /\ dragSession # NoSession => WellFormed(dragSession)
    /\ (startCall.called /\ startCall.result.ok) => WellFormed(startCall.result.session)
    /\ updateCall.called => WellFormed(updateCall.result.session)

\* an update has taken a locked session with an axis back to its first cell
C33_Witness ==
    /\ updateCall.called
    /\ updateCall.session.locked
    /\ updateCall.session.axis # "null"
    /\ Len(updateCall.session.path) >= 2
    /\ UpdateAxis # "null"
    /\ Len(dragSession.path) = 1

(***************************************************************************)
(* Properties of the gesture callbacks.                                    *)
(***************************************************************************)
\* the gesture is drawing: the condition under which onUpdate updates the
\* session and onEnd hands it over
Drawing == gestureMode = MODE_DRAW /\ isDrawing # 0

\* an update of the session with the pointer at (px, py) reports a change
\* exactly when the path it returns is not the path it was given
ChangeReported(px, py) ==
    \E result \in {updateDragSession(dragSession, px, py)} :
        result.pathChanged <=> result.session.path # dragSession.path

\* C34: whatever the pointer position, an update of the session of a draw
\* gesture reports pathChanged exactly when the path it returns differs from
\* the path it was given; and as long as the gesture is drawing, the preview
\* cells are the flattened path of the session.
C34_PreviewFollowsPath ==
    Drawing =>
        /\ dragSession # NoSession
        /\ \A px \in PointerXs, py \in PointerYs : ChangeReported(px, py)
        /\ previewCells = flattenPath(dragSession.path)

\* a draw gesture with a path of two cells and the preview holding the two,
\* from which one pointer position takes a cell away and another changes
\* nothing
C34_Witness ==
    /\ Drawing
    /\ phase = "active"
    /\ Len(dragSession.path) = 2
    /\ dragSession.axis # "null"
    /\ previewCells = flattenPath(dragSession.path)
    /\ \E px \in PointerXs, py \in PointerYs :
           /\ updateDragSession(dragSession, px, py).pathChanged
           /\ Len(updateDragSession(dragSession, px, py).session.path) = 1
    /\ \E px \in PointerXs, py \in PointerYs :
           ~updateDragSession(dragSession, px, py).pathChanged

\* the segments the start call removed from the store
StartRemoved == AllSegments(startCall.paths) \ AllSegments(startCall.result.paths)

\* C35: the segments a start on a dot removes from the shared store all have
\* the dot's color, the segments of every other color are left as they were,
\* in their order, and a start on a cell without a dot removes nothing.
C35_StartSparesOtherColors ==
    startCall.called =>
        /\ pathsShared = startCall.result.paths
        /\ AllSegments(startCall.result.paths) \subseteq AllSegments(startCall.paths)
        /\ StartedOnDot =>
               /\ StartRemoved \subseteq
                      ColorSegments(startCall.paths,
                                    Lookup(dotColorByKey, KeyOf(startCall.startCell)))
               /\ \A color \in Colors \ {Lookup(dotColorByKey, KeyOf(startCall.startCell))} :
                      SegmentsOf(startCall.result.paths, color)
                          = SegmentsOf(startCall.paths, color)
        /\ ~StartedOnDot => startCall.result.paths = startCall.paths

\* a start on a dot has removed two segments of the dot's color from a
\* store that holds a segment of another color as well
C35_Witness ==
    /\ StartedOnDot
    /\ Cardinality(StartRemoved) = 2
    /\ \E color \in Colors \ {Lookup(dotColorByKey, KeyOf(startCall.startCell))} :
           /\ Len(SegmentsOf(startCall.paths, color)) >= 1
           /\ Len(SegmentsOf(pathsShared, color)) >= 1

(***************************************************************************)
(* Properties of the order of the removals of a commit.                    *)
(***************************************************************************)
\* the session a release hands to the commit, and what the commit returns
\* for it (part_002, lines 899-916)
ReleaseSession == DrawnSession(dragSession.color, dragSession.path)
ReleaseResult ==
    commitDragWorklet(pathsShared, ReleaseSession, dotColorByKey, areaByKey,
                      segmentIdSeed, segmentIdCounter)

\* the orders in which the four removals can be applied
RemovalOrders == {order \in [1..4 -> 1..4] : \A i, j \in 1..4 : order[i] = order[j] => i = j}

\* the k-th removal of the commit of the path, applied to a state of the
\* commit: start area, end area (when it is not the start area), endpoints,
\* sweep
RemovalStep(k, state, color, path) ==
    CASE k = 1 -> RemoveInArea(state, color,
                               AreaOfEnd(KeyOf(path[1]), color, dotColorByKey, areaByKey),
                               NoArea, areaByKey)
      [] k = 2 -> RemoveInArea(state, color,
                               AreaOfEnd(KeyOf(path[Len(path)]), color, dotColorByKey,
                                         areaByKey),
                               AreaOfEnd(KeyOf(path[1]), color, dotColorByKey, areaByKey),
                               areaByKey)
      [] k = 3 -> RemoveEndpoints(state, EndpointKeys(path, dotColorByKey))
      [] k = 4 -> RemoveIntersecting(state, KeysOf(path))

\* the four removals of the release applied to the shared store in the order
\* given
RemovalsIn(order) ==
    RemovalStep(order[4],
        RemovalStep(order[3],
            RemovalStep(order[2],
                RemovalStep(order[1], Unchanged(CommitObjects(pathsShared)),
                            dragSession.color, dragSession.path),
                dragSession.color, dragSession.path),
            dragSession.color, dragSession.path),
        dragSession.color, dragSession.path)

\* the segments of the shared store that one of the four removals is for
SweptByArea ==
    {g \in ColorSegments(pathsShared, dragSession.color) :
        \E cell \in {dragSession.path[1], dragSession.path[Len(dragSession.path)]} :
            /\ DotArea(cell, dragSession.color) # NoArea
            /\ TerminatesIn(g, DotArea(cell, dragSession.color))}
SweptByEndpoint ==
    {g \in AllSegments(pathsShared) :
        {FirstKey(g), LastKey(g)} \cap EndpointKeys(dragSession.path, dotColorByKey) # {}}
SweptByCell ==
    {g \in AllSegments(pathsShared) : KeysOf(g.cells) \cap KeysOf(dragSession.path) # {}}
Swept == SweptByArea \cup SweptByEndpoint \cup SweptByCell

\* the store without the segments of `gone`, with the session's path appended
\* to its color as the segment of the next id
SweptAndAppended(gone) ==
    LET kept == Without(pathsShared, gone)
    IN  SetColor(kept, dragSession.color,
                 Append(SegmentsOf(kept, dragSession.color),
                        [id |-> SegmentId(segmentIdSeed, segmentIdCounter),
                         cells |-> dragSession.path]))

\* C36: the commit of a path of two cells or more returns, whatever the
\* order in which its four removals are applied, the same store and the same
\* didChange as in the order of the code: the store it was given without the
\* segments that one of the four removals is for, plus the new segment.
C36_RemovalOrderFree ==
    Len(dragSession.path) >= 2 =>
        \E result \in {ReleaseResult}, gone \in {Swept} :
            /\ result.paths = SweptAndAppended(gone)
            /\ result.didChange
            /\ \A order \in RemovalOrders :
                   \E state \in {RemovalsIn(order)} :
                       /\ state.changed = (gone # {})
                       /\ CommitAppend(state.objects, ReleaseSession, segmentIdSeed,
                                       segmentIdCounter) = result

\* the commit of the session removes one segment for the area rule alone and
\* another for crossing the path alone
C36_Witness ==
    /\ Len(dragSession.path) >= 2
    /\ SweptByArea \ (SweptByEndpoint \cup SweptByCell) # {}
    /\ SweptByCell \ (SweptByEndpoint \cup SweptByArea) # {}
    /\ Swept \cap AllSegments(ReleaseResult.paths) = {}

(***************************************************************************)
(* Properties of the committed segments and the dots.                      *)
(***************************************************************************)
\* every segment of the store has two cells or more, and a cell of a segment
\* that is a dot is the first or the last cell of the segment and a dot of
\* the segment's color
DotsAtEndsOnly(store) ==
    \A e \in 1..Len(store) :
        \A g \in 1..Len(store[e].segments) :
            LET cells == store[e].segments[g].cells
            IN  /\ Len(cells) >= 2
                /\ \A i \in 1..Len(cells) :
                       Truthy(Lookup(dotColorByKey, KeyOf(cells[i]))) =>
                           /\ i \in {1, Len(cells)}
                           /\ Lookup(dotColorByKey, KeyOf(cells[i])) = store[e].color

\* C37: in the shared store and in the application's store every segment has
\* two cells or more, and a dot occurs in a segment only as its first or its
\* last cell and only in a segment of the dot's color.
C37_DotsAtEndsOnly == DotsAtEndsOnly(pathsShared) /\ DotsAtEndsOnly(pathsRef)

\* the application's store holds a segment of three cells or more that joins
\* two dots, committed by a release
C37_Witness ==
    /\ commitCall.called
    /\ \E e \in 1..Len(pathsRef) :
           \E g \in 1..Len(pathsRef[e].segments) :
               LET cells == pathsRef[e].segments[g].cells
               IN  /\ Len(cells) >= 3
                   /\ Lookup(dotColorByKey, KeyOf(cells[1])) = pathsRef[e].color
                   /\ Lookup(dotColorByKey, KeyOf(cells[Len(cells)])) = pathsRef[e].color

\* the step is onEnd of a gesture that entered draw mode
DrawGestureEnds == phase = "active" /\ phase' = "ended" /\ gestureMode = MODE_DRAW

\* the step is onFinalize of a gesture whose onEnd has run
EndedGestureFinalizes == phase = "ended" /\ phase' = "none"

\* C38: for every gesture that entered draw mode, onEnd makes the onDragEnd
\* call, once, and the onFinalize that follows onEnd makes no call.
C38_OneHandOff ==
    [][/\ DrawGestureEnds => jsQueue' = Append(jsQueue, DragEnd)
       /\ EndedGestureFinalizes => jsQueue' = jsQueue]_vars

(***************************************************************************)
(* Properties of the two copies of the Path Store.                         *)
(***************************************************************************)
\* no gesture is active and no marshalled call or effect is pending
AtRest ==
    /\ phase \in {"none", "cancelled"}
    /\ jsQueue = <<>>
    /\ uiQueue = <<>>
    /\ ~effectPending

\* C39: whenever no gesture is active and no call is pending, the store
\* shared with the UI thread is the application's store.
C39_StoresAgreeAtRest == AtRest => pathsShared = pathsRef


(***************************************************************************)
(* Properties of the gesture mode.                                         *)
(***************************************************************************)
\* a gesture has begun and its onFinalize has not run
GestureOpen == phase \in {"began", "active", "ended", "cancelling"}

\* a step of a gesture callback that hands nothing over: the marshalled calls
\* and the pending effect are as they were
CallbackStep ==
    /\ jsQueue' = jsQueue
    /\ uiQueue' = uiQueue
    /\ effectPending' = effectPending

\* the mode changes inside a gesture only from idle, to draw or to pan;
\* the only other change is the reset to idle of onFinalize
ModeOneWay ==
    gestureMode' # gestureMode =>
        \/ /\ GestureOpen /\ GestureOpen'
           /\ gestureMode = MODE_IDLE
           /\ gestureMode' \in {MODE_DRAW, MODE_PAN}
        \/ /\ GestureOpen /\ ~GestureOpen'
           /\ gestureMode' = MODE_IDLE

\* a session appears only in the step from idle to draw
SessionOnDraw ==
    (dragSession = NoSession /\ dragSession' # NoSession) =>
        gestureMode = MODE_IDLE /\ gestureMode' = MODE_DRAW

\* the drawing flag is set only in draw mode with a session
DrawingHasSession ==
    isDrawing # 0 => gestureMode = MODE_DRAW /\ dragSession # NoSession

\* a gesture in pan mode holds no session, and its callbacks leave the
\* session, the preview and the shared store alone
PanHoldsNoSession == gestureMode = MODE_PAN => dragSession = NoSession

PanInert ==
    (gestureMode = MODE_PAN /\ CallbackStep) =>
        UNCHANGED <<dragSession, dragColor, previewCells, pathsShared, pathsMutated>>

\* C40: within a gesture the mode moves only from idle to draw or from idle
\* to pan; a session is created only on the step from idle to draw; a set
\* drawing flag means draw mode with a session; a gesture in pan mode never
\* creates a session and never changes the preview or the shared store.
C40_ModeOneWay ==
    /\ [](DrawingHasSession /\ PanHoldsNoSession)
    /\ [][ModeOneWay /\ SessionOnDraw /\ PanInert]_vars

\* a gesture in pan mode has ended over a store that holds a segment
C40_Witness ==
    /\ gestureMode = MODE_PAN
    /\ phase = "ended"
    /\ pathsShared # <<>>
====
